---------------------------- MODULE Spec2Model ----------------------------
(***************************************************************************)
(* Arrival detection and headway analysis of bus-check                     *)
(* (src/src/bus_check/analysis/headway_analysis.py, config.py).            *)
(*                                                                         *)
(* Time is counted in integer sub-ticks.  A sample timestamp is a whole    *)
(* number of ticks, and one tick is TimeUnit sub-ticks, TimeUnit being the *)
(* least common multiple of every pdist difference the model can draw, so  *)
(* that the linear interpolation of detect_stop_arrivals is computed       *)
(* exactly, as the source's real-valued expression.  (pandas rounds the    *)
(* product fraction * Timedelta to its nanosecond resolution; the model    *)
(* keeps the resolution fine enough that nothing is rounded.)              *)
(***************************************************************************)
EXTENDS Integers, Sequences, FiniteSets, TLC

VARIABLES
    vehicle_positions,  \* detect_stop_arrivals: the input table, a sequence of rows
    min_gap,            \* pd.Timedelta(minutes=min_gap_minutes), in sub-ticks
    pc,                 \* position of the call: "start", "groups", "scan", "done"
    vids_left,          \* groupby("vid"): the vehicle groups not yet iterated
    vid,                \* the group being scanned
    group,              \* that group, sorted by tmstmp and re-indexed
    i,                  \* the inner loop's index (1-based: the pair (i, i+1))
    last_arrival_time,  \* <<>> for None, <<t>> otherwise
    arrivals,           \* the list of event dicts appended so far
    result,             \* the returned DataFrame: [columns, rows]
    hw_arrivals,        \* compute_headways_from_arrivals: the input rows
    hw_pc,              \* position of that call: "start", "sorted", "done"
    sorted_arrivals,    \* its sorted_arrivals
    headways,           \* the returned Series, in minutes
    win_arrivals,       \* filter_arrivals_to_service_window: the input rows
    win_columns,        \* the input frame's columns
    win_pc,             \* position of that call: "start", "masked", "done"
    mask,               \* its boolean mask, one entry per input row
    win_result,         \* the rows it returns
    win_result_columns, \* the returned frame's columns
    met_headways,       \* compute_headway_metrics: the batch, in minutes
    met_pc,             \* position of that call: "start", "moments", "done"
    met_locals,         \* its locals n, mean_h, std_h, sum_h, sum_h2, ewt
    metrics,            \* the dict it returns
    drv_driver,         \* the pipeline driver running
    drv_positions,      \* its positions of one route
    drv_pc,             \* "prepare", "detect", "filter", "headways", "reduce",
                        \* "done", "skipped" (return None / continue), or "raised"
    drv_reference,      \* its reference_pdist
    drv_arrivals,       \* its arrivals
    drv_headways,       \* its headways
    drv_reduced,        \* the batches it has handed to compute_headway_metrics
    drv_result,         \* <<>> for None, <<record>> otherwise
    vd_full,            \* main of validate_algorithm.py: per route, what analyze_route
                        \* returns at full resolution
    vd_down,            \* and on the downsampled positions
    vd_pc,              \* "collect", "deltas", "returned", "raised"
    vd_route,           \* the route of the loop on lines 119-143
    full_results,       \* its full_results
    down_results,       \* its down_results
    common,             \* sorted(common)
    deltas,             \* its deltas
    verdict,            \* the verdict printed: "PASS", "MARGINAL", "FAIL", or "none"
    vd_return,          \* <<>> while running, <<code>> once returned
    ds_positions,       \* downsample_to_interval: the input table
    ds_interval,        \* its interval_sec
    ds_pc,              \* position of that call: "groups", "done"
    ds_vids_left,       \* groupby("vid"): the groups not yet iterated
    ds_result,          \* its list result, one frame per group
    ds_out,             \* the table it returns
    d1_positions,       \* D1Client.insert_vehicle_positions_batch: positions
    d1_pc,              \* position of that call: "uncalled", "start", "chunk", "rows",
                        \* "execute", "returned", "raised"
    d1_i,               \* i of range(0, len(positions), ROWS_PER_BATCH)
    d1_chunk,           \* chunk
    d1_placeholders,    \* placeholders
    d1_params,          \* params
    d1_calls,           \* the calls of self.execute made so far, with D1's answer
    d1_table,           \* the rows of D1's vehicle_positions table
    d1_return,          \* <<>> while running or raised, <<count>> once returned
    bt_routes,          \* BusTrackerClient.get_vehicles: routes
    bt_pc,              \* position of that call: "uncalled", "loop", "returned", "raised"
    bt_i,               \* i of range(0, len(routes), BATCH_SIZE)
    bt_calls,           \* the getvehicles requests made so far, with the API's answer
    all_vehicles,       \* all_vehicles
    col_weekday,        \* collect_to_d1.py: chicago_now().weekday(), 0 is Monday
    col_hour,           \* chicago_now().hour
    col_pc,             \* position of main: "start", "poll", "insert", "returned",
                        \* "raised"
    col_return,         \* <<>> while running or raised, <<code>> once returned
    html_file,          \* update_headways_html: the content of the file at html_path
    new_data_js,        \* its new_data_js
    html_stats,         \* whether stats is given
    html_pc,            \* position of that call: "start", "read", "replaced",
                        \* "rewritten", "done", "raised"
    html_content,       \* its content
    new_content,        \* its new_content
    html_count,         \* its count
    rh_routes,          \* compute_route_headway_data: the routes it loops over
    rh_d1,              \* what d1.query_vehicle_positions_by_route gives for each
    rh_pc,              \* position of that call: "loop", "route", "returned", "raised"
    rh_k,               \* the turn of the loop (1-based)
    rh_results,         \* its results
    m64_headways,       \* compute_headway_metrics in float64: the batch, in minutes
    m64_pc,             \* position of that call: "start", "moments", "done"
    m64_locals,         \* its locals n, mean_h, std_h, sum_h, sum_h2, ewt
    metrics64           \* the dict it returns

detVars == <<vehicle_positions, min_gap, pc, vids_left, vid, group, i,
             last_arrival_time, arrivals, result>>
hwVars == <<hw_arrivals, hw_pc, sorted_arrivals, headways>>
winVars == <<win_arrivals, win_columns, win_pc, mask, win_result, win_result_columns>>
metVars == <<met_headways, met_pc, met_locals, metrics>>

drvVars == <<drv_driver, drv_positions, drv_pc, drv_reference, drv_arrivals,
             drv_headways, drv_reduced, drv_result>>

vdVars == <<vd_full, vd_down, vd_pc, vd_route, full_results, down_results, common,
            deltas, verdict, vd_return>>

dsVars == <<ds_positions, ds_interval, ds_pc, ds_vids_left, ds_result, ds_out>>

d1Vars == <<d1_positions, d1_pc, d1_i, d1_chunk, d1_placeholders, d1_params,
            d1_calls, d1_table, d1_return>>

btVars == <<bt_routes, bt_pc, bt_i, bt_calls, all_vehicles>>

colVars == <<col_weekday, col_hour, col_pc, col_return>>

htmlVars == <<html_file, new_data_js, html_stats, html_pc, html_content, new_content,
              html_count>>

rhVars == <<rh_routes, rh_d1, rh_pc, rh_k, rh_results>>

met64Vars == <<m64_headways, m64_pc, m64_locals, metrics64>>

vars == <<detVars, hwVars, winVars, metVars, drvVars, vdVars, dsVars, d1Vars, btVars,
          colVars, htmlVars, rhVars, met64Vars>>

\* what the steps of one function leave alone: the variables of the others
notDetVars == <<hwVars, winVars, metVars, drvVars, vdVars, dsVars, d1Vars, btVars, colVars,
    htmlVars, rhVars, met64Vars>>
notHwVars == <<detVars, winVars, metVars, drvVars, vdVars, dsVars, d1Vars, btVars, colVars,
    htmlVars, rhVars, met64Vars>>
notWinVars == <<detVars, hwVars, metVars, drvVars, vdVars, dsVars, d1Vars, btVars, colVars,
    htmlVars, rhVars, met64Vars>>
notMetVars == <<detVars, hwVars, winVars, drvVars, vdVars, dsVars, d1Vars, btVars, colVars,
    htmlVars, rhVars, met64Vars>>
notDrvVars == <<detVars, hwVars, winVars, metVars, vdVars, dsVars, d1Vars, btVars, colVars,
    htmlVars, rhVars, met64Vars>>
notVdVars == <<detVars, hwVars, winVars, metVars, drvVars, dsVars, d1Vars, btVars, colVars,
    htmlVars, rhVars, met64Vars>>
notDsVars == <<detVars, hwVars, winVars, metVars, drvVars, vdVars, d1Vars, btVars, colVars,
    htmlVars, rhVars, met64Vars>>
notD1Vars == <<detVars, hwVars, winVars, metVars, drvVars, vdVars, dsVars, btVars, colVars,
    htmlVars, rhVars, met64Vars>>
notBtVars == <<detVars, hwVars, winVars, metVars, drvVars, vdVars, dsVars, d1Vars, colVars,
    htmlVars, rhVars, met64Vars>>
notHtmlVars == <<detVars, hwVars, winVars, metVars, drvVars, vdVars, dsVars, d1Vars, btVars,
                 colVars, rhVars, met64Vars>>
notRhDrvVars == <<detVars, hwVars, winVars, metVars, vdVars, dsVars, d1Vars, btVars,
                  colVars, htmlVars, met64Vars>>
analysisVars == <<detVars, hwVars, winVars, metVars, drvVars, vdVars, dsVars, htmlVars, rhVars,
                  met64Vars>>
notMet64Vars == <<detVars, hwVars, winVars, metVars, drvVars, vdVars, dsVars, d1Vars,
                  btVars, colVars, htmlVars, rhVars>>

---------------------------------------------------------------------------
(* Bounds of the model *)

\* rows of a time-ordered feed (specification Spec)
MaxRows == 5
\* rows of an arbitrary, unsorted table (specification SpecTable)
MaxTableRows == 3
\* arrivals handed to the headway builder, and their latest minute
MaxArrivals == 3
MaxMinute == 3
\* arrivals handed to the service-window filter
MaxWindowRows == 2
\* rows of a frame with an extra column handed to the service-window filter
MaxFrameRows == 3
\* headways handed to the metrics reducer
MaxHeadways == 3
\* polls of a route handed to a pipeline driver
MaxPolls == 3
\* routes the validation compares
MaxRoutes == 2
\* rows of a table handed to the downsampler
MaxSparseRows == 3
\* positions of one call of insert_vehicle_positions_batch
MaxPositions == 15
\* routes of one call of get_vehicles
MaxRouteList == 21
\* pieces of the file update_headways_html rewrites
MaxPieces == 4
\* samples of the one vehicle of a cooldown run
MaxSamples == 6
\* headways handed to the metrics reducer in float64, in any order
MaxHeadways64 == 3
\* headways handed to the metrics reducer in float64, counted by threshold
MaxCounted == 6

---------------------------------------------------------------------------
(* Parameters and value domains *)

\* detect_stop_arrivals(reference_pdist=...)
reference_pdist == 1

\* detect_stop_arrivals(min_gap_minutes=30): 30 minutes, a tick being 15 minutes
min_gap_minutes == 2
\* the values of min_gap_minutes of the cooldown runs, in ticks
GapMinutes == {min_gap_minutes, min_gap_minutes + 1, min_gap_minutes + 2}

Vids == {1, 2}
\* pdist values below, at and above the reference
Pdists == 0 .. (2 * reference_pdist)
\* sample times of an arbitrary table, in ticks
Times == 0 .. 2

RECURSIVE Gcd(_, _)
Gcd(a, b) == IF b = 0 THEN a ELSE Gcd(b, a % b)

RECURSIVE LcmUpTo(_)
LcmUpTo(n) == IF n <= 1 THEN 1
              ELSE LET l == LcmUpTo(n - 1) IN (l * n) \div Gcd(l, n)

\* sub-ticks per tick: every pdist difference 1 .. 2*reference_pdist divides it
TimeUnit == LcmUpTo(2 * reference_pdist)

Row(v, t, d) == [vid |-> v, tmstmp |-> t * TimeUnit, pdist |-> d]

Rows == {Row(v, t, d) : v \in Vids, t \in Times, d \in Pdists}

\* every table of n rows, in any order, timestamps repeated or not
Tables(n) == [1 .. n -> Rows]

\* a feed: row k was sampled at tick k - 1, by the vehicle and with the pdist f gives
Feed(f) == [k \in DOMAIN f |-> Row(f[k][1], k - 1, f[k][2])]

---------------------------------------------------------------------------
(* Helpers of pandas the detector relies on *)

SeqToSet(s) == {s[k] : k \in 1 .. Len(s)}

RECURSIVE SelectSeqBy(_, _, _)
\* the rows of s (from index k on) whose vid is v, in their order in s
SelectSeqBy(s, v, k) ==
    IF k > Len(s) THEN <<>>
    ELSE IF s[k].vid = v THEN <<s[k]>> \o SelectSeqBy(s, v, k + 1)
    ELSE SelectSeqBy(s, v, k + 1)

\* vehicle_positions.groupby("vid"): one group per distinct vid
GroupKeys(table) == {table[k].vid : k \in 1 .. Len(table)}
GroupOf(table, v) == SelectSeqBy(table, v, 1)

RECURSIVE InsertByKey(_, _, _)
\* r inserted into s, sorted on column key, after every row with s[..][key] <= r[key]
InsertByKey(s, r, key) ==
    IF s = <<>> THEN <<r>>
    ELSE IF s[Len(s)][key] <= r[key] THEN Append(s, r)
    ELSE Append(InsertByKey(SubSeq(s, 1, Len(s) - 1), r, key), s[Len(s)])

RECURSIVE SortPrefix(_, _, _)
SortPrefix(s, n, key) ==
    IF n = 0 THEN <<>> ELSE InsertByKey(SortPrefix(s, n - 1, key), s[n], key)

\* DataFrame.sort_values(key).reset_index(drop=True): ascending, ties in input order
SortValues(s, key) == SortPrefix(s, Len(s), key)

\* faulty variant: the group is scanned in input order, the sort forgotten
SortByTimeForgotten(s) == s

\* line 67: group.sort_values("tmstmp").reset_index(drop=True)
SortByTime(s) == SortValues(s, "tmstmp")

---------------------------------------------------------------------------
(* detect_stop_arrivals *)

\* faulty variant: an empty frame without the documented columns, as pd.DataFrame() gives
EmptyFrameNoColumns == [columns |-> <<>>, rows |-> <<>>]

\* lines 61 and 98: pd.DataFrame(columns=["vid", "arrival_time", "pdist_at_arrival"])
EmptyFrame ==
    [columns |-> <<"vid", "arrival_time", "pdist_at_arrival">>, rows |-> <<>>]

\* lines 88-94: the event dict, its keys in insertion order
Event(v, t) == [vid |-> v, arrival_time |-> t, pdist_at_arrival |-> reference_pdist]
EventKeys == <<"vid", "arrival_time", "pdist_at_arrival">>

\* line 100: pd.DataFrame(arrivals) takes its columns from the dicts' keys
EventFrame(events) == [columns |-> EventKeys, rows |-> events]

\* faulty variant: the test on prev is dropped, any sample at or above the reference counts
CrossingIgnoringPrev(prev, curr) == curr.pdist >= reference_pdist

\* faulty variant: prev may sit on the reference (<= for <)
CrossingFromAtOrBelow(prev, curr) ==
    prev.pdist <= reference_pdist /\ curr.pdist >= reference_pdist

\* faulty variant: a descent through the reference counts as well
CrossingEitherWay(prev, curr) ==
    \/ prev.pdist < reference_pdist /\ curr.pdist >= reference_pdist
    \/ curr.pdist < reference_pdist /\ prev.pdist >= reference_pdist

\* line 74: the crossing test of a consecutive pair
Crossing(prev, curr) ==
    prev.pdist < reference_pdist /\ curr.pdist >= reference_pdist

\* faulty variant: no interpolation, the later sample's timestamp is taken
InterpolateAtCurr(prev, curr) == curr.tmstmp

\* lines 79-81: fraction = (reference - prev.pdist) / denom;
\* arrival_time = prev.tmstmp + fraction * (curr.tmstmp - prev.tmstmp)
Interpolate(prev, curr) ==
    prev.tmstmp
    + ((reference_pdist - prev.pdist) * (curr.tmstmp - prev.tmstmp))
      \div (curr.pdist - prev.pdist)

\* faulty variant: no cooldown at all
SuppressedNever(last, arrival_time, gap) == FALSE

\* faulty variant: a gap of exactly min_gap is suppressed too (<= for <)
SuppressedAtGap(last, arrival_time, gap) ==
    /\ last # <<>>
    /\ arrival_time - last[1] <= gap

\* lines 84-86: the jitter test against the last accepted arrival of the vehicle
Suppressed(last, arrival_time, gap) ==
    /\ last # <<>>
    /\ arrival_time - last[1] < gap

\* lines 60-64
Start ==
    /\ pc = "start"
    /\ IF vehicle_positions = <<>>
       THEN /\ pc' = "done"
            /\ result' = EmptyFrame
            /\ vids_left' = vids_left
       ELSE /\ pc' = "groups"
            /\ vids_left' = GroupKeys(vehicle_positions)
            /\ result' = result
    /\ UNCHANGED <<vehicle_positions, min_gap, vid, group, i, last_arrival_time, arrivals>>
    /\ UNCHANGED notDetVars

\* faulty variant: last_arrival_time is not reset, one cooldown shared by all vehicles
NextGroupSharedCooldown ==
    /\ pc = "groups"
    /\ vids_left # {}
    /\ LET v == CHOOSE x \in vids_left : \A y \in vids_left : x <= y IN
         /\ vid' = v
         /\ group' = SortByTime(GroupOf(vehicle_positions, v))
         /\ vids_left' = vids_left \ {v}
    /\ i' = 1
    /\ pc' = "scan"
    /\ UNCHANGED <<vehicle_positions, min_gap, last_arrival_time, arrivals, result>>
    /\ UNCHANGED notDetVars

\* lines 66-68: the next group, in ascending key order
NextGroup ==
    /\ pc = "groups"
    /\ vids_left # {}
    /\ LET v == CHOOSE x \in vids_left : \A y \in vids_left : x <= y IN
         /\ vid' = v
         /\ group' = SortByTime(GroupOf(vehicle_positions, v))
         /\ vids_left' = vids_left \ {v}
    /\ i' = 1
    /\ last_arrival_time' = <<>>
    /\ pc' = "scan"
    /\ UNCHANGED <<vehicle_positions, min_gap, arrivals, result>>
    /\ UNCHANGED notDetVars

\* faulty variant: the cooldown restarts at every crossing seen, accepted or not
ScanPairFromLastSeen ==
    /\ pc = "scan"
    /\ i <= Len(group) - 1
    /\ LET prev == group[i]
           curr == group[i + 1]
       IN IF Crossing(prev, curr) /\ curr.pdist - prev.pdist # 0
          THEN /\ arrivals' = IF Suppressed(last_arrival_time, Interpolate(prev, curr), min_gap)
                              THEN arrivals
                              ELSE Append(arrivals, Event(vid, Interpolate(prev, curr)))
               /\ last_arrival_time' = <<Interpolate(prev, curr)>>
          ELSE UNCHANGED <<arrivals, last_arrival_time>>
    /\ i' = i + 1
    /\ UNCHANGED <<vehicle_positions, min_gap, pc, vids_left, vid, group, result>>
    /\ UNCHANGED notDetVars

\* lines 70-95: one iteration of the inner loop
ScanPair ==
    /\ pc = "scan"
    /\ i <= Len(group) - 1
    /\ LET prev == group[i]
           curr == group[i + 1]
       IN IF Crossing(prev, curr) /\ curr.pdist - prev.pdist # 0
             /\ ~Suppressed(last_arrival_time, Interpolate(prev, curr), min_gap)
          THEN /\ arrivals' = Append(arrivals, Event(vid, Interpolate(prev, curr)))
               /\ last_arrival_time' = <<Interpolate(prev, curr)>>
          ELSE UNCHANGED <<arrivals, last_arrival_time>>
    /\ i' = i + 1
    /\ UNCHANGED <<vehicle_positions, min_gap, pc, vids_left, vid, group, result>>
    /\ UNCHANGED notDetVars

\* line 70: the inner loop is exhausted
EndGroup ==
    /\ pc = "scan"
    /\ i > Len(group) - 1
    /\ pc' = "groups"
    /\ UNCHANGED <<vehicle_positions, min_gap, vids_left, vid, group, i,
                   last_arrival_time, arrivals, result>>
    /\ UNCHANGED notDetVars

\* lines 97-100
Return ==
    /\ pc = "groups"
    /\ vids_left = {}
    /\ pc' = "done"
    /\ result' = IF arrivals = <<>> THEN EmptyFrame ELSE EventFrame(arrivals)
    /\ UNCHANGED <<vehicle_positions, min_gap, vids_left, vid, group, i,
                   last_arrival_time, arrivals>>
    /\ UNCHANGED notDetVars

InitCallWithGap(table, minutes) ==
    /\ vehicle_positions = table
    /\ min_gap = minutes * TimeUnit
    /\ pc = "start"
    /\ vids_left = {}
    /\ vid = 0
    /\ group = <<>>
    /\ i = 1
    /\ last_arrival_time = <<>>
    /\ arrivals = <<>>
    /\ result = [columns |-> <<>>, rows |-> <<>>]

\* a call with the model's min_gap_minutes
InitCall(table) == InitCallWithGap(table, min_gap_minutes)

\* no call of the detector in progress
DetectorIdle == InitCall(<<>>)

---------------------------------------------------------------------------
(* detect_stop_arrivals as a function of its input: the same loops, unrolled *)

RECURSIVE ScanFrom(_, _, _, _, _)
\* lines 70-95 from pair k on, with the last accepted arrival and the events so far
ScanFrom(v, g, k, last, acc) ==
    IF k > Len(g) - 1 THEN acc
    ELSE IF Crossing(g[k], g[k + 1]) /\ g[k + 1].pdist - g[k].pdist # 0
            /\ ~Suppressed(last, Interpolate(g[k], g[k + 1]), min_gap_minutes * TimeUnit)
         THEN ScanFrom(v, g, k + 1, <<Interpolate(g[k], g[k + 1])>>,
                       Append(acc, Event(v, Interpolate(g[k], g[k + 1]))))
         ELSE ScanFrom(v, g, k + 1, last, acc)

RECURSIVE DetectGroups(_, _)
\* lines 66-95 over the groups vs, in ascending key order
DetectGroups(table, vs) ==
    IF vs = {} THEN <<>>
    ELSE LET v == CHOOSE x \in vs : \A y \in vs : x <= y IN
         ScanFrom(v, SortByTime(GroupOf(table, v)), 1, <<>>, <<>>)
         \o DetectGroups(table, vs \ {v})

\* lines 60-100: the rows of the returned frame
DetectRows(table) == DetectGroups(table, GroupKeys(table))

---------------------------------------------------------------------------
(* compute_headways_from_arrivals.  Arrival times are in seconds here, on   *)
(* whole minutes, so that total_seconds() / 60.0 is exact.                  *)

ArrivalRow(v, m) == [vid |-> v, arrival_time |-> 60 * m]

ArrivalTables(n) ==
    [1 .. n -> {ArrivalRow(v, m) : v \in Vids, m \in 0 .. MaxMinute}]

\* faulty variant: the rows are differenced in input order, the sort forgotten
SortByArrivalForgotten(rows) == rows

\* line 115: arrivals.sort_values("arrival_time").reset_index(drop=True)
SortByArrival(rows) == SortValues(rows, "arrival_time")

\* lines 116-120: diff().dropna(), then dt.total_seconds() / 60.0, re-indexed
DiffMinutes(rows) ==
    [k \in 1 .. Len(rows) - 1 |->
        (rows[k + 1].arrival_time - rows[k].arrival_time) \div 60]

\* lines 112-120 as a function of the input
HeadwaysOf(rows) ==
    IF Len(rows) <= 1 THEN <<>> ELSE DiffMinutes(SortByArrival(rows))

\* lines 112-113
HwReturnEmpty ==
    /\ hw_pc = "start"
    /\ Len(hw_arrivals) <= 1
    /\ headways' = <<>>
    /\ hw_pc' = "done"
    /\ UNCHANGED <<hw_arrivals, sorted_arrivals>>
    /\ UNCHANGED notHwVars

\* line 115
HwSort ==
    /\ hw_pc = "start"
    /\ Len(hw_arrivals) > 1
    /\ sorted_arrivals' = SortByArrival(hw_arrivals)
    /\ hw_pc' = "sorted"
    /\ UNCHANGED <<hw_arrivals, headways>>
    /\ UNCHANGED notHwVars

\* lines 116-120
HwDiff ==
    /\ hw_pc = "sorted"
    /\ headways' = DiffMinutes(sorted_arrivals)
    /\ hw_pc' = "done"
    /\ UNCHANGED <<hw_arrivals, sorted_arrivals>>
    /\ UNCHANGED notHwVars

InitBuilder(rows) ==
    /\ hw_arrivals = rows
    /\ hw_pc = "start"
    /\ sorted_arrivals = <<>>
    /\ headways = <<>>

\* no call of the headway builder in progress
BuilderIdle == InitBuilder(<<>>)

---------------------------------------------------------------------------
(* filter_arrivals_to_service_window and config.is_in_service_window.       *)
(* Arrival times are in minutes since a Monday 00:00 here.                  *)

\* config.py lines 44-45
SERVICE_WINDOW_WEEKDAY == <<6, 21>>
SERVICE_WINDOW_WEEKEND == <<9, 21>>

\* faulty variant: the closing hour is inside the window (<= for <)
is_in_service_window_closed(hour, is_weekday) ==
    LET window == IF is_weekday THEN SERVICE_WINDOW_WEEKDAY ELSE SERVICE_WINDOW_WEEKEND
    IN window[1] <= hour /\ hour <= window[2]

\* config.py lines 67-69
is_in_service_window(hour, is_weekday) ==
    LET window == IF is_weekday THEN SERVICE_WINDOW_WEEKDAY ELSE SERVICE_WINDOW_WEEKEND
    IN window[1] <= hour /\ hour < window[2]

\* times.dt.hour
HourOf(t) == (t \div 60) % 24

\* times.dt.dayofweek: Monday is 0
DayOfWeek(t) == (t \div (24 * 60)) % 7

\* lines 131-137: one mask entry per row
MaskOf(rows) ==
    [k \in 1 .. Len(rows) |->
        is_in_service_window(HourOf(rows[k].arrival_time),
                             DayOfWeek(rows[k].arrival_time) < 5)]

RECURSIVE SelectMasked(_, _, _)
\* line 138: arrivals[mask].reset_index(drop=True), from row k on
SelectMasked(rows, m, k) ==
    IF k > Len(rows) THEN <<>>
    ELSE IF m[k] THEN <<rows[k]>> \o SelectMasked(rows, m, k + 1)
    ELSE SelectMasked(rows, m, k + 1)

\* every day of a week, every hour, the first and the last minute of the hour
WindowTimes ==
    {(d * 24 + h) * 60 + m : d \in 0 .. 6, h \in 0 .. 23, m \in {0, 59}}

\* every day of a week, on the hour, around the opening and closing hours
WindowEdgeTimes ==
    {(d * 24 + h) * 60 : d \in 0 .. 6, h \in {5, 6, 7, 8, 9, 20, 21}}

\* n arrivals at the edges of the windows
WindowTables(n) == [1 .. n -> {Event(1, t) : t \in WindowEdgeTimes}]

\* a frame of another producer: the detector's columns and a route column
RoutedKeys == <<"vid", "arrival_time", "pdist_at_arrival", "route">>
RoutedEvent(v, t) ==
    [vid |-> v, arrival_time |-> t, pdist_at_arrival |-> reference_pdist, route |-> "4"]

\* Tuesday 05:00 and 07:00, Saturday 07:00 and 10:00
WindowFrameTimes ==
    {(1 * 24 + 5) * 60, (1 * 24 + 7) * 60, (5 * 24 + 7) * 60, (5 * 24 + 10) * 60}

\* n arrivals of two vehicles, with the detector's columns or with a route column
WindowFrames(n, routed) ==
    IF routed
    THEN [1 .. n -> {RoutedEvent(v, t) : v \in Vids, t \in WindowFrameTimes}]
    ELSE [1 .. n -> {Event(v, t) : v \in Vids, t \in WindowFrameTimes}]

\* lines 128-129: arrivals.copy()
WinReturnCopy ==
    /\ win_pc = "start"
    /\ win_arrivals = <<>>
    /\ win_result' = win_arrivals
    /\ win_result_columns' = win_columns
    /\ win_pc' = "done"
    /\ UNCHANGED <<win_arrivals, win_columns, mask>>
    /\ UNCHANGED notWinVars

\* lines 131-137
WinMask ==
    /\ win_pc = "start"
    /\ win_arrivals # <<>>
    /\ mask' = MaskOf(win_arrivals)
    /\ win_pc' = "masked"
    /\ UNCHANGED <<win_arrivals, win_columns, win_result, win_result_columns>>
    /\ UNCHANGED notWinVars

\* faulty variant: the retained rows come back sorted by arrival_time
WinSelectSorted ==
    /\ win_pc = "masked"
    /\ win_result' = SortValues(SelectMasked(win_arrivals, mask, 1), "arrival_time")
    /\ win_result_columns' = win_columns
    /\ win_pc' = "done"
    /\ UNCHANGED <<win_arrivals, win_columns, mask>>
    /\ UNCHANGED notWinVars

\* line 138: arrivals[mask].reset_index(drop=True), a new frame of the same columns
WinSelect ==
    /\ win_pc = "masked"
    /\ win_result' = SelectMasked(win_arrivals, mask, 1)
    /\ win_result_columns' = win_columns
    /\ win_pc' = "done"
    /\ UNCHANGED <<win_arrivals, win_columns, mask>>
    /\ UNCHANGED notWinVars

InitFilterFrame(columns, rows) ==
    /\ win_arrivals = rows
    /\ win_columns = columns
    /\ win_pc = "start"
    /\ mask = <<>>
    /\ win_result = <<>>
    /\ win_result_columns = <<>>

\* a call on a frame of the detector
InitFilter(rows) == InitFilterFrame(EventKeys, rows)

\* no call of the filter in progress
FilterIdle == InitFilter(<<>>)

---------------------------------------------------------------------------
(* compute_headway_metrics.  The batch is a sequence of whole minutes.  A    *)
(* float the function computes is kept exact: a quotient of two integers in  *)
(* lowest terms, the square root of one, or one of the values NaN and inf    *)
(* that numpy's and pandas' arithmetic returns where a real number has none  *)
(* (x / 0 warns and returns inf or NaN, it does not raise; the mean, median  *)
(* and max of no value and the sample deviation of fewer than two are NaN).  *)
(* Rounding of the floats is not modelled.                                   *)

Abs(x) == IF x < 0 THEN -x ELSE x

\* the quotient p / q of two integers, q > 0, in lowest terms
Num(p, q) ==
    LET g == Gcd(Abs(p), q)
    IN [kind |-> "num", num |-> p \div g, den |-> q \div g]

NaN == [kind |-> "nan", num |-> 0, den |-> 1]
Inf == [kind |-> "inf", num |-> 1, den |-> 1]

IsSquare(n) == \E r \in 0 .. n : r * r = n
Root(n) == CHOOSE r \in 0 .. n : r * r = n

\* the square root of a float >= 0: a quotient when it has one
Sqrt(x) ==
    IF x.kind # "num" THEN x
    ELSE IF IsSquare(x.num) /\ IsSquare(x.den) THEN Num(Root(x.num), Root(x.den))
    ELSE [kind |-> "root", num |-> x.num, den |-> x.den]

\* a / b for a float a >= 0 or NaN and a quotient b >= 0 or NaN
FDiv(a, b) ==
    IF a.kind = "nan" \/ b.kind = "nan" THEN NaN
    ELSE IF b.num = 0 THEN (IF a.kind = "num" /\ a.num = 0 THEN NaN ELSE Inf)
    ELSE IF a.kind = "inf" THEN Inf
    ELSE IF a.kind = "root"
         THEN Sqrt(Num(a.num * b.den * b.den, a.den * b.num * b.num))
    ELSE Num(a.num * b.den, a.den * b.num)

\* a - b for a float a and a quotient b or NaN
FSub(a, b) ==
    IF a.kind = "nan" \/ b.kind = "nan" THEN NaN
    ELSE IF a.kind = "inf" THEN Inf
    ELSE Num(a.num * b.den - b.num * a.den, a.den * b.den)

\* k * a for an integer k > 0 and a quotient a or NaN
FMul(k, a) == IF a.kind = "num" THEN Num(k * a.num, a.den) ELSE a

RECURSIVE SumOf(_, _)
\* the sum of hs[k] ^ e over the batch, e being 1 or 2
SumOf(hs, e) ==
    IF hs = <<>> THEN 0
    ELSE (IF e = 2 THEN hs[1] * hs[1] ELSE hs[1]) + SumOf(Tail(hs), e)

\* the k-th smallest headway of the batch, counted with repetitions
KthHeadway(hs, k) ==
    CHOOSE h \in SeqToSet(hs) :
        /\ Cardinality({j \in 1 .. Len(hs) : hs[j] < h}) < k
        /\ k <= Cardinality({j \in 1 .. Len(hs) : hs[j] <= h})

\* line 17: headways.mean()
Mean(hs) == FDiv(Num(SumOf(hs, 1), 1), Num(Len(hs), 1))

\* line 18: headways.std(), the sample deviation (ddof = 1)
Std(hs) ==
    LET n == Len(hs) IN
    IF n <= 1 THEN NaN
    ELSE Sqrt(Num(n * SumOf(hs, 2) - SumOf(hs, 1) * SumOf(hs, 1), n * (n - 1)))

\* line 27: headways.median()
Median(hs) ==
    LET n == Len(hs) IN
    IF n = 0 THEN NaN
    ELSE IF n % 2 = 1 THEN Num(KthHeadway(hs, (n + 1) \div 2), 1)
    ELSE Num(KthHeadway(hs, n \div 2) + KthHeadway(hs, n \div 2 + 1), 2)

\* line 34: headways.max()
Max(hs) ==
    IF hs = <<>> THEN NaN
    ELSE Num(CHOOSE h \in SeqToSet(hs) : \A g \in SeqToSet(hs) : g <= h, 1)

\* faulty variant: no factor 2 under the sum of squares
ExcessWaitTimeUnhalved(sum_h, sum_h2, mean_h) ==
    FSub(FDiv(Num(sum_h2, 1), Num(sum_h, 1)), FDiv(mean_h, Num(2, 1)))

\* line 23: ewt = sum_h2 / (2 * sum_h) - mean_h / 2
ExcessWaitTime(sum_h, sum_h2, mean_h) ==
    FSub(FDiv(Num(sum_h2, 1), Num(2 * sum_h, 1)), FDiv(mean_h, Num(2, 1)))

\* faulty variant: the guard on a zero mean is missing
CvHeadwayUnguarded(std_h, mean_h) == FDiv(std_h, mean_h)

\* line 29: std_h / mean_h if mean_h != 0 else float("inf"); NaN != 0 is true
CvHeadway(std_h, mean_h) ==
    IF ~(mean_h.kind = "num" /\ mean_h.num = 0) THEN FDiv(std_h, mean_h) ELSE Inf

\* faulty variant: < for <=
CountAtMostExclusive(hs, t) == Cardinality({k \in 1 .. Len(hs) : hs[k] < t})

\* lines 30-31: (headways <= t).sum()
CountAtMost(hs, t) == Cardinality({k \in 1 .. Len(hs) : hs[k] <= t})

\* faulty variant: >= for >
CountOverInclusive(hs, t) == Cardinality({k \in 1 .. Len(hs) : hs[k] >= t})

\* lines 32-33: (headways > t).sum()
CountOver(hs, t) == Cardinality({k \in 1 .. Len(hs) : hs[k] > t})

\* faulty variant: <= for <
CountUnderInclusive(hs, t) == Cardinality({k \in 1 .. Len(hs) : hs[k] <= t})

\* line 35: (headways < t).sum()
CountUnder(hs, t) == Cardinality({k \in 1 .. Len(hs) : hs[k] < t})

\* lines 30-35: count / n * 100
Pct(count, n) == FMul(100, FDiv(Num(count, 1), Num(n, 1)))

\* lines 16-23
Moments(hs) ==
    [n |-> Len(hs), mean_h |-> Mean(hs), std_h |-> Std(hs),
     sum_h |-> SumOf(hs, 1), sum_h2 |-> SumOf(hs, 2),
     ewt |-> ExcessWaitTime(SumOf(hs, 1), SumOf(hs, 2), Mean(hs))]

\* lines 25-37
MetricsDict(hs, l) ==
    [mean_headway |-> l.mean_h,
     median_headway |-> Median(hs),
     std_headway |-> l.std_h,
     cv_headway |-> CvHeadway(l.std_h, l.mean_h),
     pct_under_10 |-> Pct(CountAtMost(hs, 10), l.n),
     pct_under_12 |-> Pct(CountAtMost(hs, 12), l.n),
     pct_over_15 |-> Pct(CountOver(hs, 15), l.n),
     pct_over_20 |-> Pct(CountOver(hs, 20), l.n),
     max_headway |-> Max(hs),
     bunching_rate |-> Pct(CountUnder(hs, 2), l.n),
     excess_wait_time |-> l.ewt]

\* lines 8-37 as a function of the batch
MetricsOf(hs) == MetricsDict(hs, Moments(hs))

NoLocals ==
    [n |-> 0, mean_h |-> NaN, std_h |-> NaN, sum_h |-> 0, sum_h2 |-> 0, ewt |-> NaN]

\* lines 16-23
MetMoments ==
    /\ met_pc = "start"
    /\ met_locals' = Moments(met_headways)
    /\ met_pc' = "moments"
    /\ UNCHANGED <<met_headways, metrics>>
    /\ UNCHANGED notMetVars

\* lines 25-37
MetReturn ==
    /\ met_pc = "moments"
    /\ metrics' = MetricsDict(met_headways, met_locals)
    /\ met_pc' = "done"
    /\ UNCHANGED <<met_headways, met_locals>>
    /\ UNCHANGED notMetVars

InitMetrics(hs) ==
    /\ met_headways = hs
    /\ met_pc = "start"
    /\ met_locals = NoLocals
    /\ metrics = MetricsDict(<<>>, NoLocals)

\* no call of the reducer in progress
MetricsIdle == InitMetrics(<<>>)

\* headways around every threshold of the reducer, in minutes
HeadwayValues == {0, 1, 2, 3, 10, 11, 12, 13, 15, 16, 20, 21}

---------------------------------------------------------------------------
(* The pipeline drivers: analyze_route (scripts/validate_algorithm.py) and   *)
(* the body of the route loop of compute_route_headway_data                  *)
(* (scripts/update_headways.py), which run the same steps on the positions   *)
(* of one route.  The route is polled every period ticks, both vehicles at   *)
(* each poll, from Monday 05:30 on; a tick is 30 / min_gap_minutes minutes.  *)
(* The period is even, so that every arrival falls on a whole minute.        *)

Drivers == {"analyze_route", "compute_route_headway_data"}

\* ticks between two polls: half an hour, and two and a half hours
PollPeriods == {2, 10}

\* minutes in a tick
TickMinutes == 30 \div min_gap_minutes

\* the minute of the first poll, since Monday 00:00: Monday 05:30
EpochMinute == 5 * 60 + 30

\* the positions of a route: poll k gives the pdist f[k][1] of vehicle 1 and
\* f[k][2] of vehicle 2
PolledFeed(f, period) ==
    [j \in 1 .. 2 * Len(f) |->
        LET k == (j + 1) \div 2
        IN Row(IF j % 2 = 1 THEN 1 ELSE 2, period * (k - 1), f[k][IF j % 2 = 1 THEN 1 ELSE 2])]

\* positions["pdist"].min() and .max() of a non-empty table
MinPdist(table) ==
    CHOOSE d \in {table[k].pdist : k \in 1 .. Len(table)} :
        \A k \in 1 .. Len(table) : d <= table[k].pdist
MaxPdist(table) ==
    CHOOSE d \in {table[k].pdist : k \in 1 .. Len(table)} :
        \A k \in 1 .. Len(table) : d >= table[k].pdist

\* int((min + max) / 2) of pdists >= 0
MidPdist(table) == (MinPdist(table) + MaxPdist(table)) \div 2

\* the Timestamp of a detector time, as the minute since Monday 00:00
MinuteOf(t) == EpochMinute + (t \div TimeUnit) * TickMinutes

\* the frame of detect_stop_arrivals, its arrival_time column as Timestamps
ArrivalsAt(rows) ==
    [k \in 1 .. Len(rows) |-> [rows[k] EXCEPT !.arrival_time = MinuteOf(@)]]

\* the same frame as compute_headways_from_arrivals reads it, in seconds
InSeconds(rows) ==
    [k \in 1 .. Len(rows) |-> [rows[k] EXCEPT !.arrival_time = 60 * @]]

\* filter_arrivals_to_service_window as a function of its input
FilterRows(rows) == IF rows = <<>> THEN rows ELSE SelectMasked(rows, MaskOf(rows), 1)

\* headways[headways <= 120]
WithoutOutliers(hs) == SelectSeq(hs, LAMBDA h : h <= 120)

\* round(x) of Python for x = p / q >= 0: halves go to the even neighbour
RoundHalfEven(p, q) ==
    LET f == p \div q
        r == 2 * (p % q)
    IN IF r < q THEN f
       ELSE IF r > q THEN f + 1
       ELSE IF f % 2 = 0 THEN f ELSE f + 1

\* a pdist that pd.to_numeric(..., errors="coerce") makes NaN: None, or no number
NoPdist == 0 - 1

\* "<column>" in positions.columns, of a table with a row or more
HasColumn(table, column) == column \in DOMAIN table[1]

\* positions.dropna(subset=["pdist"])
DropNa(table) == SelectSeq(table, LAMBDA r : r.pdist # NoPdist)

\* validate_algorithm.py lines 63-74, update_headways.py lines 58-77: no rows, no
\* pdist column or no row with a pdist ends the route; otherwise the rows with a
\* pdist and the reference at the middle of their range
DrvPrepare ==
    /\ drv_pc = "prepare"
    /\ IF drv_positions = <<>>
       THEN drv_pc' = "skipped" /\ UNCHANGED <<drv_reference, drv_positions>>
       ELSE IF ~HasColumn(drv_positions, "pdist")
       THEN drv_pc' = "skipped" /\ UNCHANGED <<drv_reference, drv_positions>>
       ELSE IF DropNa(drv_positions) = <<>>
       THEN /\ drv_pc' = "skipped"
            /\ drv_positions' = DropNa(drv_positions)
            /\ UNCHANGED drv_reference
       ELSE /\ drv_pc' = "detect"
            /\ drv_positions' = DropNa(drv_positions)
            /\ drv_reference' = MidPdist(DropNa(drv_positions))
    /\ UNCHANGED <<drv_driver, drv_arrivals, drv_headways, drv_reduced, drv_result>>
    /\ UNCHANGED notDrvVars

\* validate_algorithm.py lines 76-78, update_headways.py lines 80-85; groupby("vid")
\* raises KeyError on a table without that column
DrvDetect ==
    /\ drv_pc = "detect"
    /\ IF ~HasColumn(drv_positions, "vid")
       THEN /\ drv_pc' = "raised"
            /\ UNCHANGED drv_arrivals
       ELSE /\ drv_reference = reference_pdist
            /\ drv_arrivals' = DetectRows(drv_positions)
            /\ drv_pc' = IF Len(DetectRows(drv_positions)) < 2 THEN "skipped" ELSE "filter"
    /\ UNCHANGED <<drv_driver, drv_positions, drv_reference, drv_headways, drv_reduced,
                   drv_result>>
    /\ UNCHANGED notDrvVars

\* validate_algorithm.py lines 80-83, update_headways.py lines 87-93
DrvFilter ==
    /\ drv_pc = "filter"
    /\ drv_arrivals' = FilterRows(ArrivalsAt(drv_arrivals))
    /\ drv_pc' = IF Len(FilterRows(ArrivalsAt(drv_arrivals))) < 2
                 THEN "skipped" ELSE "headways"
    /\ UNCHANGED <<drv_driver, drv_positions, drv_reference, drv_headways, drv_reduced,
                   drv_result>>
    /\ UNCHANGED notDrvVars

\* validate_algorithm.py lines 85-89, update_headways.py lines 95-99
DrvHeadways ==
    /\ drv_pc = "headways"
    /\ drv_headways' = WithoutOutliers(HeadwaysOf(InSeconds(drv_arrivals)))
    /\ drv_pc' = IF WithoutOutliers(HeadwaysOf(InSeconds(drv_arrivals))) = <<>>
                 THEN "skipped" ELSE "reduce"
    /\ UNCHANGED <<drv_driver, drv_positions, drv_reference, drv_arrivals, drv_reduced,
                   drv_result>>
    /\ UNCHANGED notDrvVars

\* validate_algorithm.py lines 91-100, update_headways.py lines 101-112: the call
\* of compute_headway_metrics and the record made of its dict
DrvReduce ==
    /\ drv_pc = "reduce"
    /\ drv_reduced' = Append(drv_reduced, drv_headways)
    /\ LET m == MetricsOf(drv_headways) IN
       drv_result' =
         IF drv_driver = "analyze_route"
         THEN <<[arrivals |-> Len(drv_arrivals), headways |-> Len(drv_headways),
                 mean |-> m.mean_headway, median |-> m.median_headway,
                 pct_under_10 |-> m.pct_under_10, pct_under_12 |-> m.pct_under_12]>>
         ELSE <<[scheduled |-> 100,
                 observed |-> RoundHalfEven(m.pct_under_10.num, m.pct_under_10.den)]>>
    /\ drv_pc' = "done"
    /\ UNCHANGED <<drv_driver, drv_positions, drv_reference, drv_arrivals, drv_headways>>
    /\ UNCHANGED notDrvVars

InitDriver(driver, table) ==
    /\ drv_driver = driver
    /\ drv_positions = table
    /\ drv_pc = "prepare"
    /\ drv_reference = 0
    /\ drv_arrivals = <<>>
    /\ drv_headways = <<>>
    /\ drv_reduced = <<>>
    /\ drv_result = <<>>

\* no driver running
DriverIdle == InitDriver("analyze_route", <<>>)

\* the driver not called yet by the loop that runs it
DriverUncalled ==
    /\ drv_driver = "compute_route_headway_data"
    /\ drv_positions = <<>>
    /\ drv_pc = "uncalled"
    /\ drv_reference = 0
    /\ drv_arrivals = <<>>
    /\ drv_headways = <<>>
    /\ drv_reduced = <<>>
    /\ drv_result = <<>>

---------------------------------------------------------------------------
(* main of scripts/validate_algorithm.py: the comparison of the two runs.    *)
(* The record analyze_route returns for a route is an input here: <<>> for   *)
(* None, <<p>> for a record whose pct_under_10 is p, a whole percentage.     *)

PctValues == {0, 5, 10, 20, 40}

\* what analyze_route may return for a route
Analyses == {<<>>} \cup {<<p>> : p \in PctValues}

\* set_index("route") of the frame of a non-empty list of records; index
\* intersection; sorted(common)
RoutesOf(results) == {results[k].route : k \in 1 .. Len(results)}

RECURSIVE SortedSeq(_)
SortedSeq(routes) ==
    IF routes = {} THEN <<>>
    ELSE LET r == CHOOSE x \in routes : \A y \in routes : x <= y
         IN <<r>> \o SortedSeq(routes \ {r})

\* df.loc[route]["pct_under_10"]
PctOf(results, route) ==
    LET k == CHOOSE j \in 1 .. Len(results) : results[j].route = route
    IN results[k].pct_under_10

\* lines 188 and 203-208: mean_delta = sum(deltas) / len(deltas), and the verdict
\* on abs(mean_delta); total is sum(deltas), n is len(deltas) > 0
VerdictOf(total, n) ==
    IF Abs(total) <= 5 * n THEN "PASS"
    ELSE IF Abs(total) <= 10 * n THEN "MARGINAL"
    ELSE "FAIL"

\* lines 119-143: one route of the loop
VdCollect ==
    /\ vd_pc = "collect"
    /\ vd_route <= Len(vd_full)
    /\ full_results' = IF vd_full[vd_route] # <<>>
                       THEN Append(full_results,
                                   [route |-> vd_route, pct_under_10 |-> vd_full[vd_route][1]])
                       ELSE full_results
    /\ down_results' = IF vd_down[vd_route] # <<>>
                       THEN Append(down_results,
                                   [route |-> vd_route, pct_under_10 |-> vd_down[vd_route][1]])
                       ELSE down_results
    /\ vd_route' = vd_route + 1
    /\ UNCHANGED <<vd_full, vd_down, vd_pc, common, deltas, verdict, vd_return>>
    /\ UNCHANGED notVdVars

\* lines 145-167: the two frames and the routes present in both.  The frame of an
\* empty list has no route column: set_index("route") raises KeyError.
VdTables ==
    /\ vd_pc = "collect"
    /\ vd_route > Len(vd_full)
    /\ IF full_results = <<>>
       THEN vd_pc' = "returned" /\ vd_return' = <<1>> /\ UNCHANGED common
       ELSE IF down_results = <<>>
       THEN vd_pc' = "raised" /\ UNCHANGED <<vd_return, common>>
       ELSE IF RoutesOf(full_results) \cap RoutesOf(down_results) = {}
       THEN vd_pc' = "returned" /\ vd_return' = <<1>> /\ UNCHANGED common
       ELSE /\ vd_pc' = "deltas"
            /\ common' = SortedSeq(RoutesOf(full_results) \cap RoutesOf(down_results))
            /\ UNCHANGED vd_return
    /\ UNCHANGED <<vd_full, vd_down, vd_route, full_results, down_results, deltas, verdict>>
    /\ UNCHANGED notVdVars

\* lines 169-181: one route of the comparison loop
VdDelta ==
    /\ vd_pc = "deltas"
    /\ Len(deltas) < Len(common)
    /\ LET route == common[Len(deltas) + 1]
       IN deltas' = Append(deltas, PctOf(down_results, route) - PctOf(full_results, route))
    /\ UNCHANGED <<vd_full, vd_down, vd_pc, vd_route, full_results, down_results, common,
                   verdict, vd_return>>
    /\ UNCHANGED notVdVars

\* lines 183-210
VdVerdict ==
    /\ vd_pc = "deltas"
    /\ Len(deltas) = Len(common)
    /\ verdict' = VerdictOf(SumOf(deltas, 1), Len(deltas))
    /\ vd_return' = <<0>>
    /\ vd_pc' = "returned"
    /\ UNCHANGED <<vd_full, vd_down, vd_route, full_results, down_results, common, deltas>>
    /\ UNCHANGED notVdVars

InitVerdict(full, down) ==
    /\ vd_full = full
    /\ vd_down = down
    /\ vd_pc = "collect"
    /\ vd_route = 1
    /\ full_results = <<>>
    /\ down_results = <<>>
    /\ common = <<>>
    /\ deltas = <<>>
    /\ verdict = "none"
    /\ vd_return = <<>>

\* no run of the validation in progress
VerdictIdle == InitVerdict(<<>>, <<>>)

---------------------------------------------------------------------------
(* downsample_to_interval of scripts/validate_algorithm.py.  Timestamps and  *)
(* the target interval are in sub-ticks.                                     *)

\* line 47: group["tmstmp"].diff().dropna()
Diffs(g) == [k \in 1 .. Len(g) - 1 |-> g[k + 1].tmstmp - g[k].tmstmp]

\* lines 48 and 52: twice diffs.median(), of one gap or more
Median2(ds) ==
    LET n == Len(ds) IN
    IF n % 2 = 1 THEN 2 * KthHeadway(ds, (n + 1) \div 2)
    ELSE KthHeadway(ds, n \div 2) + KthHeadway(ds, n \div 2 + 1)

\* faulty variant: the quotient is taken the wrong way round
StrideInverted(interval, median2) ==
    IF RoundHalfEven(median2, 2 * interval) >= 1
    THEN RoundHalfEven(median2, 2 * interval) ELSE 1

\* line 53: step = max(1, round(interval_sec / base_interval)), base_interval
\* being median2 / 2
Stride(interval, median2) ==
    IF RoundHalfEven(2 * interval, median2) >= 1
    THEN RoundHalfEven(2 * interval, median2) ELSE 1

\* faulty variant: the slice starts at step, the first sample is dropped
EveryNthAfterFirst(g, step) ==
    [k \in 1 .. (Len(g) \div (step + 1)) |-> g[k * step + 1]]

\* line 54: group.iloc[::step]
EveryNth(g, step) ==
    [k \in 1 .. ((Len(g) + step - 1) \div step) |-> g[(k - 1) * step + 1]]

\* lines 41-54: what the loop appends for the group g
DownsampleGroup(g, interval) ==
    LET sorted == SortByTime(g) IN
    IF Len(sorted) < 2 THEN sorted
    ELSE IF Median2(Diffs(sorted)) = 0 THEN sorted
    ELSE EveryNth(sorted, Stride(interval, Median2(Diffs(sorted))))

RECURSIVE Concat(_)
\* line 58: pd.concat(result, ignore_index=True)
Concat(frames) == IF frames = <<>> THEN <<>> ELSE frames[1] \o Concat(Tail(frames))

\* lines 40-54: one group of the loop, in ascending key order
DsGroup ==
    /\ ds_pc = "groups"
    /\ ds_vids_left # {}
    /\ LET v == CHOOSE x \in ds_vids_left : \A y \in ds_vids_left : x <= y IN
         /\ ds_result' = Append(ds_result,
                                DownsampleGroup(GroupOf(ds_positions, v), ds_interval))
         /\ ds_vids_left' = ds_vids_left \ {v}
    /\ UNCHANGED <<ds_positions, ds_interval, ds_pc, ds_out>>
    /\ UNCHANGED notDsVars

\* lines 56-58
DsReturn ==
    /\ ds_pc = "groups"
    /\ ds_vids_left = {}
    /\ ds_out' = IF ds_result = <<>> THEN <<>> ELSE Concat(ds_result)
    /\ ds_pc' = "done"
    /\ UNCHANGED <<ds_positions, ds_interval, ds_vids_left, ds_result>>
    /\ UNCHANGED notDsVars

InitDownsample(table, interval) ==
    /\ ds_positions = table
    /\ ds_interval = interval
    /\ ds_pc = "groups"
    /\ ds_vids_left = GroupKeys(table)
    /\ ds_result = <<>>
    /\ ds_out = <<>>

\* no call of the downsampler in progress
DownsamplerIdle == InitDownsample(<<>>, 1)

\* samples below and above the reference
SparseRows == {Row(v, t, d) : v \in Vids, t \in Times, d \in {0, 2 * reference_pdist}}

\* target intervals: half a tick, a tick, a tick and a half, three ticks
Intervals == {TimeUnit \div 2, TimeUnit, 3 * (TimeUnit \div 2), 3 * TimeUnit}

---------------------------------------------------------------------------
(* D1Client (src/src/bus_check/data/d1_client.py) *)

\* ROWS_PER_BATCH of insert_vehicle_positions_batch
ROWS_PER_BATCH == 7

\* the columns of the INSERT statement, one bound parameter each
Columns ==
    <<"collected_at", "vid", "tmstmp", "route", "direction", "destination", "lat",
      "lon", "heading", "speed", "pdist", "pattern_id", "delayed">>

\* the parameters params.extend([...]) adds for one position
RowParams(p) == [c \in 1 .. Len(Columns) |-> <<p, Columns[c]>>]

\* positions[i : i + ROWS_PER_BATCH], a slice that runs one row too far
ChunkOneTooMany(positions, k) ==
    SubSeq(positions, k + 1,
           IF k + ROWS_PER_BATCH + 1 < Len(positions)
           THEN k + ROWS_PER_BATCH + 1 ELSE Len(positions))

\* positions[i : i + ROWS_PER_BATCH]
Chunk(positions, k) ==
    SubSeq(positions, k + 1,
           IF k + ROWS_PER_BATCH < Len(positions)
           THEN k + ROWS_PER_BATCH ELSE Len(positions))

\* what D1Client.execute can meet: the statement carried out, an HTTP error status
\* (resp.raise_for_status() raises), or a body whose "success" is false (RuntimeError)
D1Answers == {"success", "http_error", "not_success"}

\* if not positions: return 0; otherwise enter the loop
D1Start ==
    /\ d1_pc = "start"
    /\ IF d1_positions = <<>>
       THEN /\ d1_pc' = "returned"
            /\ d1_return' = <<0>>
       ELSE /\ d1_pc' = "chunk"
            /\ d1_return' = d1_return
    /\ UNCHANGED <<d1_positions, d1_i, d1_chunk, d1_placeholders, d1_params,
                   d1_calls, d1_table>>
    /\ UNCHANGED notD1Vars

\* one turn of the outer loop: chunk, placeholders = [], params = []
D1Chunk ==
    /\ d1_pc = "chunk"
    /\ d1_i < Len(d1_positions)
    /\ d1_chunk' = Chunk(d1_positions, d1_i)
    /\ d1_placeholders' = <<>>
    /\ d1_params' = <<>>
    /\ d1_pc' = "rows"
    /\ UNCHANGED <<d1_positions, d1_i, d1_calls, d1_table, d1_return>>
    /\ UNCHANGED notD1Vars

\* one turn of the inner loop, or its end
D1Row ==
    /\ d1_pc = "rows"
    /\ IF Len(d1_placeholders) < Len(d1_chunk)
       THEN LET p == d1_chunk[Len(d1_placeholders) + 1]
            IN  /\ d1_placeholders' = Append(d1_placeholders, p)
                /\ d1_params' = d1_params \o RowParams(p)
                /\ d1_pc' = d1_pc
       ELSE /\ d1_pc' = "execute"
            /\ UNCHANGED <<d1_placeholders, d1_params>>
    /\ UNCHANGED <<d1_positions, d1_i, d1_chunk, d1_calls, d1_table, d1_return>>
    /\ UNCHANGED notD1Vars

\* self.execute(sql, params) that swallows a failure and goes on to the next chunk
D1ExecuteSwallowing ==
    /\ d1_pc = "execute"
    /\ \E answer \in D1Answers :
          /\ d1_calls' = Append(d1_calls, [rows |-> d1_placeholders,
                                           params |-> d1_params,
                                           answer |-> answer])
          /\ d1_table' = IF answer = "success" THEN d1_table \o d1_chunk ELSE d1_table
    /\ d1_i' = d1_i + ROWS_PER_BATCH
    /\ d1_pc' = "chunk"
    /\ UNCHANGED <<d1_positions, d1_chunk, d1_placeholders, d1_params, d1_return>>
    /\ UNCHANGED notD1Vars

\* self.execute(sql, params): the statement inserts the chunk's rows; a failure is
\* raised out of the loop.  After an HTTP error status the rows may or may not have
\* been inserted: the source sees the status only
D1Execute ==
    /\ d1_pc = "execute"
    /\ \E answer \in D1Answers :
          /\ d1_calls' = Append(d1_calls, [rows |-> d1_placeholders,
                                           params |-> d1_params,
                                           answer |-> answer])
          /\ IF answer = "success"
             THEN /\ d1_table' = d1_table \o d1_chunk
                  /\ d1_i' = d1_i + ROWS_PER_BATCH
                  /\ d1_pc' = "chunk"
             ELSE /\ d1_table' \in {d1_table} \cup
                                   (IF answer = "http_error"
                                    THEN {d1_table \o d1_chunk} ELSE {})
                  /\ d1_i' = d1_i
                  /\ d1_pc' = "raised"
    /\ UNCHANGED <<d1_positions, d1_chunk, d1_placeholders, d1_params, d1_return>>
    /\ UNCHANGED notD1Vars

\* the range is exhausted: return len(positions)
D1Return ==
    /\ d1_pc = "chunk"
    /\ d1_i >= Len(d1_positions)
    /\ d1_pc' = "returned"
    /\ d1_return' = <<Len(d1_positions)>>
    /\ UNCHANGED <<d1_positions, d1_i, d1_chunk, d1_placeholders, d1_params,
                   d1_calls, d1_table>>
    /\ UNCHANGED notD1Vars

\* a call on a list of positions, the table holding the rows of earlier runs
InitInsert(positions, table) ==
    /\ d1_positions = positions
    /\ d1_pc = "start"
    /\ d1_i = 0
    /\ d1_chunk = <<>>
    /\ d1_placeholders = <<>>
    /\ d1_params = <<>>
    /\ d1_calls = <<>>
    /\ d1_table = table
    /\ d1_return = <<>>

\* the client before any call
D1Idle ==
    /\ d1_positions = <<>>
    /\ d1_pc = "uncalled"
    /\ d1_i = 0
    /\ d1_chunk = <<>>
    /\ d1_placeholders = <<>>
    /\ d1_params = <<>>
    /\ d1_calls = <<>>
    /\ d1_table = <<>>
    /\ d1_return = <<>>

---------------------------------------------------------------------------
(* BusTrackerClient (src/src/bus_check/data/bus_tracker.py) *)

\* BusTrackerClient.BATCH_SIZE
BATCH_SIZE == 10

\* routes[i : i + self.BATCH_SIZE]
Batch(routes, k) ==
    SubSeq(routes, k + 1,
           IF k + BATCH_SIZE < Len(routes) THEN k + BATCH_SIZE ELSE Len(routes))

\* the msg texts of the API's error entries
NoDataMsg == "No data found for parameter"
Messages == {NoDataMsg, "Invalid API access key supplied"}

\* what a getvehicles request can meet: an HTTP error status, or a body whose
\* bustime-response has an "error" list (error = <<TRUE, msgs>>) or has none
\* (error = <<FALSE>>), and a "vehicle" entry that is a list, one dict, or absent
Vehicle(rt, n) == [rt |-> rt, vid |-> n]
VehicleEntries(rt) ==
    {[kind |-> "absent"],
     [kind |-> "dict", value |-> Vehicle(rt, 1)],
     [kind |-> "list", value |-> <<>>],
     [kind |-> "list", value |-> <<Vehicle(rt, 1), Vehicle(rt, 2)>>]}
ErrorLists ==
    {<<>>, <<NoDataMsg>>} \cup {<<m>> : m \in Messages \ {NoDataMsg}}
    \cup UNION {{<<m1, m2>> : m2 \in Messages \ {m1}} : m1 \in Messages}
Responses(rt) ==
    {[status |-> "http_error"]}
    \cup {[status |-> "ok", error |-> <<TRUE, msgs>>] : msgs \in ErrorLists}
    \cup {[status |-> "ok", error |-> <<FALSE>>, vehicle |-> v] : v \in VehicleEntries(rt)}

\* "No data found" in str(e), e = RuntimeError("; ".join(messages)): the text has no
\* "; " in it, so it is in the joined string exactly when it is in one of the messages
MentionsNoData(msgs) == \E k \in 1 .. Len(msgs) : msgs[k] = NoDataMsg

\* what _request does with a response: raise requests' HTTPError, raise
\* RuntimeError(joined messages), or return the bustime-response
Request(resp) ==
    IF resp.status = "http_error" THEN [raises |-> "HTTPError"]
    ELSE IF resp.error[1] THEN [raises |-> "RuntimeError", messages |-> resp.error[2]]
    ELSE [raises |-> "none", bustime |-> resp]

\* data.get("vehicle", []), a single dict wrapped in a list
VehiclesOf(bustime) ==
    IF bustime.vehicle.kind = "absent" THEN <<>>
    ELSE IF bustime.vehicle.kind = "dict" THEN <<bustime.vehicle.value>>
    ELSE bustime.vehicle.value

\* the except clause that lets every RuntimeError pass as "no data"
SwallowedAlways(outcome) == outcome.raises = "RuntimeError"

\* except RuntimeError as e: if "No data found" in str(e): continue
Swallowed(outcome) ==
    /\ outcome.raises = "RuntimeError"
    /\ MentionsNoData(outcome.messages)

\* one turn of the loop: the batch, its request, and what the try statement does
\* with the outcome
BtBatch ==
    /\ bt_pc = "loop"
    /\ bt_i < Len(bt_routes)
    /\ LET batch == Batch(bt_routes, bt_i)
       IN  \E resp \in Responses(batch[1]) :
              LET outcome == Request(resp)
              IN  /\ bt_calls' = Append(bt_calls, [rt |-> batch, response |-> resp])
                  /\ IF outcome.raises = "none"
                     THEN /\ all_vehicles' = all_vehicles \o VehiclesOf(outcome.bustime)
                          /\ bt_i' = bt_i + BATCH_SIZE
                          /\ bt_pc' = bt_pc
                     ELSE IF Swallowed(outcome)
                     THEN /\ all_vehicles' = all_vehicles
                          /\ bt_i' = bt_i + BATCH_SIZE
                          /\ bt_pc' = bt_pc
                     ELSE /\ all_vehicles' = all_vehicles
                          /\ bt_i' = bt_i
                          /\ bt_pc' = "raised"
    /\ UNCHANGED bt_routes
    /\ UNCHANGED notBtVars

\* the range is exhausted: return all_vehicles
BtReturn ==
    /\ bt_pc = "loop"
    /\ bt_i >= Len(bt_routes)
    /\ bt_pc' = "returned"
    /\ UNCHANGED <<bt_routes, bt_i, bt_calls, all_vehicles>>
    /\ UNCHANGED notBtVars

\* a call on a list of routes
InitVehicles(routes) ==
    /\ bt_routes = routes
    /\ bt_pc = "loop"
    /\ bt_i = 0
    /\ bt_calls = <<>>
    /\ all_vehicles = <<>>

\* the client before any call
BusTrackerIdle ==
    /\ bt_routes = <<>>
    /\ bt_pc = "uncalled"
    /\ bt_i = 0
    /\ bt_calls = <<>>
    /\ all_vehicles = <<>>

---------------------------------------------------------------------------
(* The D1 collection script (src/scripts/collect_to_d1.py) *)

\* ALL_FREQUENT_ROUTES: the routes of the four phases, in order
ALL_FREQUENT_ROUTES ==
    <<"J14", "34", "47", "54", "60", "63", "79", "95",
      "4", "20", "49", "66",
      "53", "55", "77", "82",
      "9", "12", "72", "81">>

\* should_collect that takes Saturday for a weekday
should_collect_six_weekdays(weekday, hour) == is_in_service_window(hour, weekday < 6)

\* should_collect, on what chicago_now() gives
should_collect(weekday, hour) == is_in_service_window(hour, weekday < 5)

\* the position dict main makes of one vehicle (collected_at is the same for all)
PositionOf(v) == [vid |-> v.vid, route |-> v.rt]

\* the service-window test of main, then the credentials (a missing environment
\* variable raises KeyError) and the call of get_vehicles
ColCheck ==
    /\ col_pc = "start"
    /\ IF ~should_collect(col_weekday, col_hour)
       THEN /\ col_pc' = "returned"
            /\ col_return' = <<0>>
            /\ UNCHANGED btVars
       ELSE \/ /\ col_pc' = "raised"
               /\ col_return' = col_return
               /\ UNCHANGED btVars
            \/ /\ col_pc' = "poll"
               /\ col_return' = col_return
               /\ bt_routes' = ALL_FREQUENT_ROUTES
               /\ bt_pc' = "loop"
               /\ bt_i' = 0
               /\ bt_calls' = <<>>
               /\ all_vehicles' = <<>>
    /\ UNCHANGED <<col_weekday, col_hour>>
    /\ UNCHANGED <<analysisVars, d1Vars>>

\* get_vehicles has returned: nothing to write, or the positions and the call of
\* insert_vehicle_positions_batch
ColTransform ==
    /\ col_pc = "poll"
    /\ bt_pc = "returned"
    /\ IF all_vehicles = <<>>
       THEN /\ col_pc' = "returned"
            /\ col_return' = <<0>>
            /\ UNCHANGED d1Vars
       ELSE /\ col_pc' = "insert"
            /\ col_return' = col_return
            /\ d1_positions' = [k \in 1 .. Len(all_vehicles) |-> PositionOf(all_vehicles[k])]
            /\ d1_pc' = "start"
            /\ UNCHANGED <<d1_i, d1_chunk, d1_placeholders, d1_params, d1_calls,
                           d1_table, d1_return>>
    /\ UNCHANGED <<col_weekday, col_hour>>
    /\ UNCHANGED <<analysisVars, btVars>>

\* insert_vehicle_positions_batch has returned: print the count, return 0
ColFinish ==
    /\ col_pc = "insert"
    /\ d1_pc = "returned"
    /\ col_pc' = "returned"
    /\ col_return' = <<0>>
    /\ UNCHANGED <<col_weekday, col_hour>>
    /\ UNCHANGED <<analysisVars, btVars, d1Vars>>

\* an exception of either client leaves main
ColRaise ==
    /\ \/ col_pc = "poll" /\ bt_pc = "raised"
       \/ col_pc = "insert" /\ d1_pc = "raised"
    /\ col_pc' = "raised"
    /\ UNCHANGED <<col_weekday, col_hour, col_return>>
    /\ UNCHANGED <<analysisVars, btVars, d1Vars>>

\* main at a Chicago local time
InitMain(weekday, hour) ==
    /\ col_weekday = weekday
    /\ col_hour = hour
    /\ col_pc = "start"
    /\ col_return = <<>>

\* the script not run
CollectorIdle == InitMain(0, 0)

---------------------------------------------------------------------------
(* The site updater (src/scripts/update_headways.py): update_headways_html *)

\* A file is a sequence of pieces of text: "open" is `const HEADWAY_DATA = [`,
\* "close" is `];`, "updated_old" is a `Last updated <month> <year>` line,
\* "prose_old" is a passage one of update_prose's patterns matches, "text" is
\* anything else.  "entry", "updated_new" and "prose_new" are what the updater writes.
FilePieces == {"open", "close", "text", "updated_old", "prose_old"}

\* build_headway_data_js: the declaration, one entry per route, the closing `];`
build_headway_data_js(data) ==
    <<"open">> \o [k \in 1 .. Len(data) |-> "entry"] \o <<"close">>

\* the position of the first `];` after position k, 0 if there is none
FirstClose(content, k) ==
    IF \E c \in k + 1 .. Len(content) : content[c] = "close"
    THEN CHOOSE c \in k + 1 .. Len(content) :
            /\ content[c] = "close"
            /\ \A b \in k + 1 .. c - 1 : content[b] # "close"
    ELSE 0

\* re.subn(r"const HEADWAY_DATA = \[.*?\];", repl, content, flags=re.DOTALL) from
\* position k on: every non-overlapping leftmost match, each the shortest from its
\* start, is replaced; the result and the number of replacements
RECURSIVE SubnFrom(_, _, _)
SubnFrom(content, k, repl) ==
    IF k > Len(content) THEN [out |-> <<>>, count |-> 0]
    ELSE IF content[k] = "open" /\ FirstClose(content, k) # 0
    THEN LET rest == SubnFrom(content, FirstClose(content, k) + 1, repl)
         IN  [out |-> repl \o rest.out, count |-> rest.count + 1]
    ELSE LET rest == SubnFrom(content, k + 1, repl)
         IN  [out |-> <<content[k]>> \o rest.out, count |-> rest.count]

Subn(content, repl) == SubnFrom(content, 1, repl)

\* re.sub(r"Last updated \w+ \d{4}", f"Last updated {month_year}", ...)
UpdateLastUpdated(content) ==
    [k \in 1 .. Len(content) |->
        IF content[k] \in {"updated_old", "updated_new"} THEN "updated_new"
        ELSE content[k]]

\* update_prose: its patterns rewrite the passages they match
update_prose(content) ==
    [k \in 1 .. Len(content) |->
        IF content[k] \in {"prose_old", "prose_new"} THEN "prose_new"
        ELSE content[k]]

\* with open(html_path, "r") as f: content = f.read()
HtmlRead ==
    /\ html_pc = "start"
    /\ html_content' = html_file
    /\ html_pc' = "read"
    /\ UNCHANGED <<html_file, new_data_js, html_stats, new_content, html_count>>
    /\ UNCHANGED notHtmlVars

\* re.subn without the test of count
HtmlSubnUnchecked ==
    /\ html_pc = "read"
    /\ new_content' = Subn(html_content, new_data_js).out
    /\ html_count' = Subn(html_content, new_data_js).count
    /\ html_pc' = "replaced"
    /\ UNCHANGED <<html_file, new_data_js, html_stats, html_content>>
    /\ UNCHANGED notHtmlVars

\* re.subn, and RuntimeError if count == 0
HtmlSubn ==
    /\ html_pc = "read"
    /\ new_content' = Subn(html_content, new_data_js).out
    /\ html_count' = Subn(html_content, new_data_js).count
    /\ html_pc' = IF html_count' = 0 THEN "raised" ELSE "replaced"
    /\ UNCHANGED <<html_file, new_data_js, html_stats, html_content>>
    /\ UNCHANGED notHtmlVars

\* the "Last updated" line, and the prose if stats is given
HtmlProse ==
    /\ html_pc = "replaced"
    /\ new_content' = IF html_stats THEN update_prose(UpdateLastUpdated(new_content))
                      ELSE UpdateLastUpdated(new_content)
    /\ html_pc' = "rewritten"
    /\ UNCHANGED <<html_file, new_data_js, html_stats, html_content, html_count>>
    /\ UNCHANGED notHtmlVars

\* with open(html_path, "w") as f: f.write(new_content)
HtmlWrite ==
    /\ html_pc = "rewritten"
    /\ html_file' = new_content
    /\ html_pc' = "done"
    /\ UNCHANGED <<new_data_js, html_stats, html_content, new_content, html_count>>
    /\ UNCHANGED notHtmlVars

\* a call on a file, with a new block and with or without stats
InitHtml(file, block, stats) ==
    /\ html_file = file
    /\ new_data_js = block
    /\ html_stats = stats
    /\ html_pc = "start"
    /\ html_content = <<>>
    /\ new_content = <<>>
    /\ html_count = 0

\* no call
HtmlIdle == InitHtml(<<>>, <<>>, FALSE)

---------------------------------------------------------------------------
(* The site updater (src/scripts/update_headways.py):                       *)
(* compute_route_headway_data, its loop over the routes around the steps of *)
(* the pipeline driver                                                      *)

\* D1Client.query_vehicle_positions_by_route: the rows of the route, or the error
\* D1Client.execute raises
QueryRows(table) == [ok |-> TRUE, rows |-> table]
QueryError == [ok |-> FALSE]

\* what D1 can hold for a route.  Ticks are a quarter of an hour, tick 0 is Monday
\* 05:30, and a vehicle that goes from pdist 0 to 2 between two ticks arrives
\* halfway.
RouteTables ==
    {<<>>,
     \* rows without a pdist column
     <<[vid |-> 1, tmstmp |-> 0]>>,
     \* rows whose pdist is null
     <<[Row(1, 2, 0) EXCEPT !.pdist = NoPdist], [Row(1, 4, 2) EXCEPT !.pdist = NoPdist]>>,
     \* rows without a vid column
     <<[tmstmp |-> 2 * TimeUnit, pdist |-> 0], [tmstmp |-> 4 * TimeUnit, pdist |-> 2]>>,
     \* one arrival, Monday 06:15
     <<Row(1, 2, 0), Row(1, 4, 2)>>,
     \* two arrivals before the service window opens, Monday 05:45
     <<Row(1, 0, 0), Row(2, 0, 0), Row(1, 2, 2), Row(2, 2, 2)>>,
     \* two arrivals in the window, Monday 06:15 and 08:30: one headway, of 135 minutes
     <<Row(1, 2, 0), Row(1, 4, 2), Row(2, 11, 0), Row(2, 13, 2)>>,
     \* two arrivals, 06:15 and 06:30: one headway, of 15 minutes
     <<Row(1, 2, 0), Row(1, 4, 2), Row(2, 3, 0), Row(2, 5, 2)>>,
     \* two arrivals at 06:15: one headway, of 0 minutes
     <<Row(1, 2, 0), Row(2, 2, 0), Row(1, 4, 2), Row(2, 4, 2)>>,
     \* three arrivals, 06:15 twice and 06:45, the first row's pdist null
     <<[Row(2, 0, 0) EXCEPT !.pdist = NoPdist], Row(1, 2, 0), Row(2, 2, 0),
       Row(1, 4, 2), Row(2, 4, 2), Row(1, 5, 0), Row(1, 6, 2)>>}

RouteAnswers == {QueryError} \cup {QueryRows(table) : table \in RouteTables}

RECURSIVE InsertByObserved(_, _)
\* d inserted into a list in descending order of "observed", after its equals
InsertByObserved(s, d) ==
    IF s = <<>> THEN <<d>>
    ELSE IF s[Len(s)].observed >= d.observed THEN Append(s, d)
    ELSE Append(InsertByObserved(SubSeq(s, 1, Len(s) - 1), d), s[Len(s)])

RECURSIVE SortByObserved(_)
\* results.sort(key=lambda d: d["observed"], reverse=True): stable, equals keep
\* their order
SortByObserved(s) ==
    IF s = <<>> THEN <<>>
    ELSE InsertByObserved(SortByObserved(SubSeq(s, 1, Len(s) - 1)), s[Len(s)])

\* lines 57-59: the next route and its rows; an error of the query is outside the
\* try statement and leaves the function.  With rows, the route runs through the
\* pipeline (lines 63-112)
RhQuery ==
    /\ rh_pc = "loop"
    /\ rh_k <= Len(rh_routes)
    /\ IF ~rh_d1[rh_k].ok
       THEN /\ rh_pc' = "raised"
            /\ UNCHANGED drvVars
       ELSE /\ rh_pc' = "route"
            /\ drv_driver' = "compute_route_headway_data"
            /\ drv_positions' = rh_d1[rh_k].rows
            /\ drv_pc' = "prepare"
            /\ drv_reference' = 0
            /\ drv_arrivals' = <<>>
            /\ drv_headways' = <<>>
            /\ drv_result' = <<>>
            /\ UNCHANGED drv_reduced
    /\ UNCHANGED <<rh_routes, rh_d1, rh_k, rh_results>>
    /\ UNCHANGED notRhDrvVars

\* the except clause missing: an exception of the pipeline leaves the function
RhNextRouteUncaught ==
    /\ rh_pc = "route"
    /\ drv_pc \in {"skipped", "raised", "done"}
    /\ rh_results' =
          IF drv_pc = "done"
          THEN Append(rh_results, [route |-> rh_routes[rh_k],
                                   scheduled |-> drv_result[1].scheduled,
                                   observed |-> drv_result[1].observed])
          ELSE rh_results
    /\ rh_k' = IF drv_pc = "raised" THEN rh_k ELSE rh_k + 1
    /\ rh_pc' = IF drv_pc = "raised" THEN "raised" ELSE "loop"
    /\ UNCHANGED <<rh_routes, rh_d1>>
    /\ UNCHANGED drvVars
    /\ UNCHANGED notRhDrvVars

\* the end of one turn of the loop: a continue (lines 60, 64, 70, 85, 93, 99), the
\* except clause (lines 117-119), or the record appended (lines 104-112)
RhNextRoute ==
    /\ rh_pc = "route"
    /\ drv_pc \in {"skipped", "raised", "done"}
    /\ rh_results' =
          IF drv_pc = "done"
          THEN Append(rh_results, [route |-> rh_routes[rh_k],
                                   scheduled |-> drv_result[1].scheduled,
                                   observed |-> drv_result[1].observed])
          ELSE rh_results
    /\ rh_k' = rh_k + 1
    /\ rh_pc' = "loop"
    /\ UNCHANGED <<rh_routes, rh_d1>>
    /\ UNCHANGED drvVars
    /\ UNCHANGED notRhDrvVars

\* lines 121-123: the loop is over, sort and return
RhReturn ==
    /\ rh_pc = "loop"
    /\ rh_k > Len(rh_routes)
    /\ rh_results' = SortByObserved(rh_results)
    /\ rh_pc' = "returned"
    /\ UNCHANGED <<rh_routes, rh_d1, rh_k>>
    /\ UNCHANGED drvVars
    /\ UNCHANGED notRhDrvVars

\* a call with a list of routes and what D1 holds for each
InitRouteLoop(routes, d1) ==
    /\ rh_routes = routes
    /\ rh_d1 = d1
    /\ rh_pc = "loop"
    /\ rh_k = 1
    /\ rh_results = <<>>

\* no call
RouteLoopIdle == InitRouteLoop(<<>>, <<>>)

---------------------------------------------------------------------------
(* compute_headway_metrics in the float64 arithmetic of numpy               *)
(* (src/src/bus_check/analysis/headway_analysis.py).  A finite float64 is a  *)
(* sign, a mantissa of 53 bits and an exponent; every operation gives the    *)
(* exact result rounded to the nearest float64, ties to the even mantissa.   *)
(* Mantissas and the intermediate exact results are naturals below 2^112,    *)
(* kept as 8 limbs of 14 bits, least significant first.  The exponent is     *)
(* not limited: the headways are too far from the smallest and the largest   *)
(* float64 for a subnormal result or an overflow.                            *)

LimbBits == 14
LimbBase == 16384
LimbCount == 8
MantissaBits == 53

Limbs == 1 .. LimbCount

\* the natural whose limb u is Limb(u)
NatFrom(Limb(_)) == SubSeq([u \in Limbs |-> Limb(u)], 1, LimbCount)

NatZero == NatFrom(LAMBDA u : 0)

\* the natural k < 2^31
NatOf(k) ==
    NatFrom(LAMBDA u : IF u = 1 THEN k % LimbBase
                       ELSE IF u = 2 THEN (k \div LimbBase) % LimbBase
                       ELSE IF u = 3 THEN k \div (LimbBase * LimbBase)
                       ELSE 0)

\* a + b, below 2^112: limb u receives a carry when a lower limb overflows and
\* every limb in between is full
NatAdd(a, b) ==
    LET Carry(u) == \E j \in 1 .. u - 1 :
                       /\ a[j] + b[j] >= LimbBase
                       /\ \A k \in j + 1 .. u - 1 : a[k] + b[k] = LimbBase - 1
    IN NatFrom(LAMBDA u : (a[u] + b[u] + (IF Carry(u) THEN 1 ELSE 0)) % LimbBase)

\* a - b for a >= b: limb u lends when a lower limb falls short and every limb
\* in between is level
NatSub(a, b) ==
    LET Borrow(u) == \E j \in 1 .. u - 1 :
                        /\ a[j] < b[j]
                        /\ \A k \in j + 1 .. u - 1 : a[k] = b[k]
    IN NatFrom(LAMBDA u : (a[u] - b[u] - (IF Borrow(u) THEN 1 ELSE 0)) % LimbBase)

NatLess(a, b) ==
    \E u \in Limbs : a[u] < b[u] /\ \A j \in Limbs : j > u => a[j] = b[j]

\* a * 2^(14 * w)
ShiftLimbs(a, w) == NatFrom(LAMBDA u : IF u <= w THEN 0 ELSE a[u - w])

\* the product of limb u of a and the limb of b that meets it in column k
LimbProduct(a, b, u, k) ==
    IF k + 1 - u >= 1 /\ k + 1 - u <= LimbCount THEN a[u] * b[k + 1 - u] ELSE 0

\* a * b, below 2^112, for a and b of which one has at most 4 limbs: the column
\* sums, below 2^30, are split in three limbs each
NatMul(a, b) ==
    LET column == NatFrom(LAMBDA k :
                     LimbProduct(a, b, 1, k) + LimbProduct(a, b, 2, k)
                     + LimbProduct(a, b, 3, k) + LimbProduct(a, b, 4, k)
                     + LimbProduct(a, b, 5, k) + LimbProduct(a, b, 6, k)
                     + LimbProduct(a, b, 7, k) + LimbProduct(a, b, 8, k))
        low  == NatFrom(LAMBDA k : column[k] % LimbBase)
        mid  == NatFrom(LAMBDA k : (column[k] \div LimbBase) % LimbBase)
        high == NatFrom(LAMBDA k : column[k] \div (LimbBase * LimbBase))
    IN NatAdd(NatAdd(low, ShiftLimbs(mid, 1)), ShiftLimbs(high, 2))

\* a * 2^s
ShiftLeft(a, s) == ShiftLimbs(NatMul(a, NatOf(2 ^ (s % LimbBits))), s \div LimbBits)

\* a \div 2^s
ShiftRight(a, s) ==
    LET w == s \div LimbBits
        r == s % LimbBits
    IN NatFrom(LAMBDA u :
          (IF u + w <= LimbCount THEN a[u + w] \div (2 ^ r) ELSE 0)
          + (IF u + w + 1 <= LimbCount
             THEN (a[u + w + 1] % (2 ^ r)) * (2 ^ (LimbBits - r)) ELSE 0))

\* a % 2^s
LowBits(a, s) ==
    LET w == s \div LimbBits
        r == s % LimbBits
    IN NatFrom(LAMBDA u : IF u <= w THEN a[u]
                          ELSE IF u = w + 1 THEN a[u] % (2 ^ r) ELSE 0)

\* the number of bits of a: 0 for 0, otherwise k with 2^(k-1) <= a < 2^k
BitLength(a) ==
    IF a = NatZero THEN 0
    ELSE LET t == CHOOSE u \in Limbs : a[u] # 0 /\ \A j \in Limbs : j > u => a[j] = 0
             k == CHOOSE c \in 1 .. LimbBits : 2 ^ (c - 1) <= a[t] /\ a[t] < 2 ^ c
         IN LimbBits * (t - 1) + k

NatOdd(a) == a[1] % 2 = 1

\* floats: kind "num" with value (-1)^neg * man * 2^exp, man = 0 or of 53 bits
F64(neg, man, exp) == [kind |-> "num", neg |-> neg, man |-> man, exp |-> exp]
\* the floats: the finite ones, NaN and the infinities
F64s == [kind : {"num", "nan", "inf"}, neg : BOOLEAN, man : Seq(Nat), exp : Int]

F64Zero == F64(FALSE, NatZero, 0)
F64NaN == [kind |-> "nan", neg |-> FALSE, man |-> NatZero, exp |-> 0]
F64Inf == [kind |-> "inf", neg |-> FALSE, man |-> NatZero, exp |-> 0]

\* 2^k
PowerOfTwo(k) == [NatZero EXCEPT ![k \div LimbBits + 1] = 2 ^ (k % LimbBits)]

\* m * 2^e for m of len bits, at most 53, with the mantissa brought to 53 bits
Widened(neg, m, e, len) ==
    F64(neg, ShiftLeft(m, MantissaBits - len), e - (MantissaBits - len))

\* q * 2^e for q of at most 54 bits, the 54th set only when q = 2^53
Carried(neg, q, e) ==
    IF BitLength(q) > MantissaBits THEN F64(neg, ShiftRight(q, 1), e + 1)
    ELSE F64(neg, q, e)

\* whether the quotient q with the remainder r goes up: r above the half, or at
\* the half with something beyond it or with q odd
RoundsUp(q, r, half, sticky) ==
    NatLess(half, r) \/ (r = half /\ (sticky \/ NatOdd(q)))

\* m * 2^e without the d lowest bits of m, rounded
Narrowed(neg, m, e, sticky, d) ==
    Carried(neg,
            IF RoundsUp(ShiftRight(m, d), LowBits(m, d), PowerOfTwo(d - 1), sticky)
            THEN NatAdd(ShiftRight(m, d), NatOf(1))
            ELSE ShiftRight(m, d),
            e + d)

\* the float64 nearest to m * 2^e, for m of len bits
RoundNearestEvenOf(neg, m, e, sticky, len) ==
    IF len = 0 THEN F64Zero
    ELSE IF len <= MantissaBits THEN Widened(neg, m, e, len)
    ELSE Narrowed(neg, m, e, sticky, len - MantissaBits)

\* the float64 nearest to m * 2^e (plus a little more when sticky), ties to even
RoundNearestEven(neg, m, e, sticky) ==
    RoundNearestEvenOf(neg, m, e, sticky, BitLength(m))

\* an integer below 2^31 as a float
F64Of(k) == IF k < 0 THEN RoundNearestEven(TRUE, NatOf(0 - k), 0, FALSE)
            ELSE RoundNearestEven(FALSE, NatOf(k), 0, FALSE)

IsZero(x) == x.kind = "num" /\ x.man = NatZero

\* |x| < |y| for finite floats
MagLess(x, y) ==
    IF IsZero(y) THEN FALSE
    ELSE IF IsZero(x) THEN TRUE
    ELSE x.exp < y.exp \/ (x.exp = y.exp /\ NatLess(x.man, y.man))

\* x < y for finite floats
F64Less(x, y) ==
    IF x.neg /\ ~y.neg THEN ~(IsZero(x) /\ IsZero(y))
    ELSE IF ~x.neg /\ y.neg THEN FALSE
    ELSE IF x.neg THEN MagLess(y, x) ELSE MagLess(x, y)

F64Neg(x) == IF x.kind = "num" THEN [x EXCEPT !.neg = ~x.neg] ELSE x

\* |x| + |y| with the sign neg, for finite nonzero floats with x.exp >= y.exp
MagAdd(neg, x, y) ==
    LET d == x.exp - y.exp IN
    IF d > 58 THEN [x EXCEPT !.neg = neg]
    ELSE RoundNearestEven(neg, NatAdd(ShiftLeft(x.man, d), y.man), y.exp, FALSE)

\* |x| - |y| with the sign neg, for finite nonzero floats with |x| > |y|
MagSub(neg, x, y) ==
    LET d == x.exp - y.exp IN
    IF d > 58 THEN [x EXCEPT !.neg = neg]
    ELSE RoundNearestEven(neg, NatSub(ShiftLeft(x.man, d), y.man), y.exp, FALSE)

\* x + y
F64AddOf[p \in [x : F64s, y : F64s]] ==
    IF p.x.kind = "nan" \/ p.y.kind = "nan" THEN F64NaN
    ELSE IF p.x.kind = "inf" \/ p.y.kind = "inf"
         THEN (IF p.x.kind = "inf" /\ p.y.kind = "inf" /\ p.x.neg # p.y.neg THEN F64NaN
               ELSE IF p.x.kind = "inf" THEN p.x ELSE p.y)
    ELSE IF IsZero(p.x) THEN (IF IsZero(p.y) THEN F64Zero ELSE p.y)
    ELSE IF IsZero(p.y) THEN p.x
    ELSE IF p.x.neg = p.y.neg
         THEN (IF p.x.exp >= p.y.exp THEN MagAdd(p.x.neg, p.x, p.y) ELSE MagAdd(p.x.neg, p.y, p.x))
    ELSE IF MagLess(p.y, p.x) THEN MagSub(p.x.neg, p.x, p.y)
    ELSE IF MagLess(p.x, p.y) THEN MagSub(p.y.neg, p.y, p.x)
    ELSE F64Zero

F64Add(x, y) == F64AddOf[[x |-> x, y |-> y]]

\* x - y
F64Sub(x, y) == F64Add(x, F64Neg(y))

\* x * y
F64MulOf[p \in [x : F64s, y : F64s]] ==
    IF p.x.kind = "nan" \/ p.y.kind = "nan" THEN F64NaN
    ELSE IF p.x.kind = "inf" \/ p.y.kind = "inf"
         THEN (IF IsZero(p.x) \/ IsZero(p.y) THEN F64NaN
               ELSE [F64Inf EXCEPT !.neg = (p.x.neg # p.y.neg)])
    ELSE IF IsZero(p.x) \/ IsZero(p.y) THEN F64Zero
    ELSE RoundNearestEven(p.x.neg # p.y.neg, NatMul(p.x.man, p.y.man), p.x.exp + p.y.exp, FALSE)

F64Mul(x, y) == F64MulOf[[x |-> x, y |-> y]]

\* bits more bits of the quotient by by, quot holding the bits found and rem twice
\* what is left
DivideFrom[d \in [quot : Seq(Nat), rem : Seq(Nat), by : Seq(Nat), bits : Nat]] ==
    IF d.bits = 0 THEN d
    ELSE IF NatLess(d.rem, d.by)
         THEN DivideFrom[[d EXCEPT !.quot = NatAdd(d.quot, d.quot),
                                   !.rem  = NatAdd(d.rem, d.rem),
                                   !.bits = d.bits - 1]]
    ELSE DivideFrom[[d EXCEPT !.quot = NatAdd(NatAdd(d.quot, d.quot), NatOf(1)),
                              !.rem  = NatAdd(NatSub(d.rem, d.by), NatSub(d.rem, d.by)),
                              !.bits = d.bits - 1]]

\* 8 more bits of the quotient
Divide8(d) == DivideFrom[[d EXCEPT !.bits = 8]]

\* the first 56 bits of a / b for a < 2 * b, and twice what is left
Divide(a, b) ==
    Divide8(Divide8(Divide8(Divide8(Divide8(Divide8(Divide8(
        [quot |-> NatZero, rem |-> a, by |-> b, bits |-> 0])))))))

\* the float of the 56 bits d.quot at the exponent e, something being left or not
Quotient[p \in [d : [quot : Seq(Nat), rem : Seq(Nat), by : Seq(Nat), bits : Nat],
                neg : BOOLEAN, e : Int]] ==
    RoundNearestEven(p.neg, p.d.quot, p.e, p.d.rem # NatZero)

\* x / y; a division by zero gives NaN or inf as numpy's does
F64DivOf[p \in [x : F64s, y : F64s]] ==
    IF p.x.kind = "nan" \/ p.y.kind = "nan" THEN F64NaN
    ELSE IF p.x.kind = "inf"
         THEN (IF p.y.kind = "inf" THEN F64NaN ELSE [F64Inf EXCEPT !.neg = (p.x.neg # p.y.neg)])
    ELSE IF p.y.kind = "inf" THEN F64Zero
    ELSE IF IsZero(p.y)
         THEN (IF IsZero(p.x) THEN F64NaN ELSE [F64Inf EXCEPT !.neg = (p.x.neg # p.y.neg)])
    ELSE IF IsZero(p.x) THEN F64Zero
    ELSE Quotient[[d |-> Divide(p.x.man, p.y.man), neg |-> (p.x.neg # p.y.neg),
                   e |-> p.x.exp - p.y.exp - 55]]

F64Div(x, y) == F64DivOf[[x |-> x, y |-> y]]

\* r with bit k set, for r whose bit k is not set
WithBit(r, k) == [r EXCEPT ![k \div LimbBits + 1] = @ + 2 ^ (k % LimbBits)]

\* the largest root with root * root <= of among those that add bits of the
\* next bits below bit to root
RootFrom[s \in [of : Seq(Nat), root : Seq(Nat), bit : Nat, bits : Nat]] ==
    IF s.bits = 0 THEN s
    ELSE IF NatLess(s.of, NatMul(WithBit(s.root, s.bit - 1), WithBit(s.root, s.bit - 1)))
         THEN RootFrom[[s EXCEPT !.bit = s.bit - 1, !.bits = s.bits - 1]]
    ELSE RootFrom[[s EXCEPT !.root = WithBit(s.root, s.bit - 1),
                            !.bit = s.bit - 1, !.bits = s.bits - 1]]

\* 8 more bits of the root
Root8(s) == RootFrom[[s EXCEPT !.bits = 8]]

\* the largest r with r * r <= m, for m < 2^112
Root56(m) ==
    Root8(Root8(Root8(Root8(Root8(Root8(Root8(
        [of |-> m, root |-> NatZero, bit |-> 56, bits |-> 0]))))))).root

\* the float of the root r of m at half the exponent e, r * r being m or less
RootRounded[p \in [r : Seq(Nat), m : Seq(Nat), e : Int]] ==
    RoundNearestEven(FALSE, p.r, p.e \div 2, NatMul(p.r, p.r) # p.m)

\* the square root of m * 2^e for m of 110 to 112 bits and e even
Rooted[p \in [m : Seq(Nat), e : Int]] ==
    RootRounded[[r |-> Root56(p.m), m |-> p.m, e |-> p.e]]

\* the square root of x >= 0
F64SqrtOf[x \in F64s] ==
    IF x.kind = "nan" THEN F64NaN
    ELSE IF IsZero(x) THEN F64Zero
    ELSE IF x.neg THEN F64NaN
    ELSE IF x.kind = "inf" THEN F64Inf
    ELSE IF x.exp % 2 = 1 THEN Rooted[[m |-> ShiftLeft(x.man, 57), e |-> x.exp - 57]]
    ELSE Rooted[[m |-> ShiftLeft(x.man, 58), e |-> x.exp - 58]]

F64Sqrt(x) == F64SqrtOf[x]


\* x <= y for finite floats
F64LessEq(x, y) == ~F64Less(y, x)

\* line 119 of compute_headways_from_arrivals: total_seconds() / 60.0, for a
\* difference of whole seconds
MinutesOf(seconds) == F64Div(F64Of(seconds), F64Of(60))

\* hs.sum(): numpy adds the values one after the other (fewer than 8 of them)
Sum64Of[hs \in Seq(F64s)] ==
    IF hs = <<>> THEN F64Zero
    ELSE F64Add(Sum64Of[SubSeq(hs, 1, Len(hs) - 1)], hs[Len(hs)])

Sum64(hs) == Sum64Of[hs]

\* headways ** 2
Squares64(hs) == [k \in 1 .. Len(hs) |-> F64Mul(hs[k], hs[k])]

\* line 17: headways.mean(), the sum divided by the count
Mean64(hs) == F64Div(Sum64(hs), F64Of(Len(hs)))

\* (avg - headways) ** 2
SquaredDistances64(hs, avg) ==
    [k \in 1 .. Len(hs) |-> F64Mul(F64Sub(avg, hs[k]), F64Sub(avg, hs[k]))]

\* line 18: headways.std(): the square root of the sum of the squared distances
\* to the mean divided by n - 1, NaN for fewer than 2 values
Std64(hs) ==
    IF Len(hs) <= 1 THEN F64NaN
    ELSE F64Sqrt(F64Div(Sum64(SquaredDistances64(hs, Mean64(hs))),
                        F64Of(Len(hs) - 1)))

\* the k-th smallest headway of the batch, counted with repetitions
KthHeadway64(hs, k) ==
    CHOOSE h \in {hs[j] : j \in 1 .. Len(hs)} :
        /\ Cardinality({j \in 1 .. Len(hs) : F64Less(hs[j], h)}) < k
        /\ k <= Cardinality({j \in 1 .. Len(hs) : F64LessEq(hs[j], h)})

\* line 27: headways.median()
Median64(hs) ==
    LET n == Len(hs) IN
    IF n = 0 THEN F64NaN
    ELSE IF n % 2 = 1 THEN KthHeadway64(hs, (n + 1) \div 2)
    ELSE F64Div(F64Add(KthHeadway64(hs, n \div 2), KthHeadway64(hs, n \div 2 + 1)),
                F64Of(2))

\* line 34: headways.max()
Max64(hs) == IF hs = <<>> THEN F64NaN ELSE KthHeadway64(hs, Len(hs))

\* sum_h2 / (2 * sum_h) - mean_h / 2 without the halving of the mean
ExcessWaitTime64Unhalved(sum_h, sum_h2, mean_h) ==
    F64Sub(F64Div(sum_h2, F64Mul(F64Of(2), sum_h)), mean_h)

\* line 23: sum_h2 / (2 * sum_h) - mean_h / 2
ExcessWaitTime64(sum_h, sum_h2, mean_h) ==
    F64Sub(F64Div(sum_h2, F64Mul(F64Of(2), sum_h)), F64Div(mean_h, F64Of(2)))

\* line 29: std_h / mean_h if mean_h != 0 else float("inf"); NaN != 0 is true
CvHeadway64(std_h, mean_h) == IF ~IsZero(mean_h) THEN F64Div(std_h, mean_h) ELSE F64Inf

\* lines 30-31: (headways <= t).sum()
CountAtMost64(hs, t) == Cardinality({k \in 1 .. Len(hs) : F64LessEq(hs[k], F64Of(t))})

\* lines 32-33: (headways > t).sum()
CountOver64(hs, t) == Cardinality({k \in 1 .. Len(hs) : F64Less(F64Of(t), hs[k])})

\* line 35: (headways < t).sum()
CountUnder64(hs, t) == Cardinality({k \in 1 .. Len(hs) : F64Less(hs[k], F64Of(t))})

\* lines 30-35: count / n * 100
Pct64(count, n) == F64Mul(F64Div(F64Of(count), F64Of(n)), F64Of(100))

\* line 23 after the locals of lines 16-22
WithExcessWaitTime64[l \in [n : Nat, mean_h : F64s, std_h : F64s, sum_h : F64s,
                            sum_h2 : F64s, ewt : F64s]] ==
    [l EXCEPT !.ewt = ExcessWaitTime64(l.sum_h, l.sum_h2, l.mean_h)]

\* lines 16-23
Moments64(hs) ==
    WithExcessWaitTime64[[n |-> Len(hs), mean_h |-> Mean64(hs), std_h |-> Std64(hs),
                          sum_h |-> Sum64(hs), sum_h2 |-> Sum64(Squares64(hs)),
                          ewt |-> F64NaN]]

\* lines 25-37 with the thresholds of pct_under_10 and pct_under_12 exchanged
MetricsDict64Exchanged(hs, l) ==
    [mean_headway |-> l.mean_h,
     median_headway |-> Median64(hs),
     std_headway |-> l.std_h,
     cv_headway |-> CvHeadway64(l.std_h, l.mean_h),
     pct_under_10 |-> Pct64(CountAtMost64(hs, 12), l.n),
     pct_under_12 |-> Pct64(CountAtMost64(hs, 10), l.n),
     pct_over_15 |-> Pct64(CountOver64(hs, 15), l.n),
     pct_over_20 |-> Pct64(CountOver64(hs, 20), l.n),
     max_headway |-> Max64(hs),
     bunching_rate |-> Pct64(CountUnder64(hs, 2), l.n),
     excess_wait_time |-> l.ewt]

\* lines 25-37
MetricsDict64(hs, l) ==
    [mean_headway |-> l.mean_h,
     median_headway |-> Median64(hs),
     std_headway |-> l.std_h,
     cv_headway |-> CvHeadway64(l.std_h, l.mean_h),
     pct_under_10 |-> Pct64(CountAtMost64(hs, 10), l.n),
     pct_under_12 |-> Pct64(CountAtMost64(hs, 12), l.n),
     pct_over_15 |-> Pct64(CountOver64(hs, 15), l.n),
     pct_over_20 |-> Pct64(CountOver64(hs, 20), l.n),
     max_headway |-> Max64(hs),
     bunching_rate |-> Pct64(CountUnder64(hs, 2), l.n),
     excess_wait_time |-> l.ewt]

\* the batch compute_headways_from_arrivals gives for gaps of whole seconds
Headways64(seconds) == [k \in 1 .. Len(seconds) |-> MinutesOf(seconds[k])]

NoLocals64 ==
    [n |-> 0, mean_h |-> F64NaN, std_h |-> F64NaN, sum_h |-> F64Zero,
     sum_h2 |-> F64Zero, ewt |-> F64NaN]

\* the dict before the call returns one
NoMetrics64 ==
    [mean_headway |-> F64NaN, median_headway |-> F64NaN, std_headway |-> F64NaN,
     cv_headway |-> F64NaN, pct_under_10 |-> F64NaN, pct_under_12 |-> F64NaN,
     pct_over_15 |-> F64NaN, pct_over_20 |-> F64NaN, max_headway |-> F64NaN,
     bunching_rate |-> F64NaN, excess_wait_time |-> F64NaN]

\* lines 16-23
MetMoments64 ==
    /\ m64_pc = "start"
    /\ m64_locals' = Moments64(m64_headways)
    /\ m64_pc' = "moments"
    /\ UNCHANGED <<m64_headways, metrics64>>
    /\ UNCHANGED notMet64Vars

\* lines 25-37
MetReturn64 ==
    /\ m64_pc = "moments"
    /\ metrics64' = MetricsDict64(m64_headways, m64_locals)
    /\ m64_pc' = "done"
    /\ UNCHANGED <<m64_headways, m64_locals>>
    /\ UNCHANGED notMet64Vars

\* a call on the batch of the gaps seconds
InitMetrics64(seconds) ==
    /\ m64_headways = SubSeq(Headways64(seconds), 1, Len(seconds))
    /\ m64_pc = "start"
    /\ m64_locals = NoLocals64
    /\ metrics64 = NoMetrics64

\* no call of the reducer in float64 in progress
Metrics64Idle == InitMetrics64(<<>>)

\* gaps in seconds: none, 2.1 minutes, 7.3 minutes, 10 minutes
SecondsValues == {0, 126, 438, 600}

\* gaps in seconds on both sides of the thresholds: 1, 12, 16 and 21 minutes
CountedSeconds == <<60, 720, 960, 1260>>

\* count times the value v
Copies(v, count) == [k \in 1 .. count |-> v]

---------------------------------------------------------------------------
(* The specifications *)

\* a call on a feed of at most MaxRows samples of two vehicles
Init ==
    /\ \E n \in 0 .. MaxRows : \E f \in [1 .. n -> Vids \X Pdists] : InitCall(Feed(f))
    /\ BuilderIdle
    /\ FilterIdle
    /\ MetricsIdle
    /\ DriverIdle
    /\ VerdictIdle
    /\ DownsamplerIdle
    /\ D1Idle
    /\ BusTrackerIdle
    /\ CollectorIdle
    /\ HtmlIdle
    /\ RouteLoopIdle
    /\ Metrics64Idle

\* a call on a table of at most MaxTableRows rows
InitTable ==
    /\ \E n \in 0 .. MaxTableRows : \E table \in Tables(n) : InitCall(table)
    /\ BuilderIdle
    /\ FilterIdle
    /\ MetricsIdle
    /\ DriverIdle
    /\ VerdictIdle
    /\ DownsamplerIdle
    /\ D1Idle
    /\ BusTrackerIdle
    /\ CollectorIdle
    /\ HtmlIdle
    /\ RouteLoopIdle
    /\ Metrics64Idle

Next == Start \/ NextGroup \/ ScanPair \/ EndGroup \/ Return

\* one call of detect_stop_arrivals on a time-ordered feed of two vehicles
Spec == Init /\ [][Next]_vars

\* one call of detect_stop_arrivals on an arbitrary table
SpecTable == InitTable /\ [][Next]_vars

\* a call on the samples of one vehicle, one per tick, with a min_gap_minutes of
\* two ticks and more
InitCooldown ==
    /\ \E n \in 0 .. MaxSamples : \E f \in [1 .. n -> {1} \X Pdists] :
          \E minutes \in GapMinutes : InitCallWithGap(Feed(f), minutes)
    /\ BuilderIdle
    /\ FilterIdle
    /\ MetricsIdle
    /\ DriverIdle
    /\ VerdictIdle
    /\ DownsamplerIdle
    /\ D1Idle
    /\ BusTrackerIdle
    /\ CollectorIdle
    /\ HtmlIdle
    /\ RouteLoopIdle
    /\ Metrics64Idle

\* one call of detect_stop_arrivals on one vehicle's series
SpecCooldown == InitCooldown /\ [][Next]_vars

\* a call on at most MaxArrivals arrivals
InitHeadways ==
    /\ \E n \in 0 .. MaxArrivals : \E rows \in ArrivalTables(n) : InitBuilder(rows)
    /\ DetectorIdle
    /\ FilterIdle
    /\ MetricsIdle
    /\ DriverIdle
    /\ VerdictIdle
    /\ DownsamplerIdle
    /\ D1Idle
    /\ BusTrackerIdle
    /\ CollectorIdle
    /\ HtmlIdle
    /\ RouteLoopIdle
    /\ Metrics64Idle

NextHeadways == HwReturnEmpty \/ HwSort \/ HwDiff

\* one call of compute_headways_from_arrivals
SpecHeadways == InitHeadways /\ [][NextHeadways]_vars

\* a call on a single arrival at any of WindowTimes, or on at most MaxWindowRows
\* arrivals at the edges of the windows, or on at most MaxFrameRows arrivals of two
\* vehicles in a frame with or without a route column
InitWindow ==
    /\ \/ \E t \in WindowTimes : InitFilter(<<Event(1, t)>>)
       \/ \E n \in 0 .. MaxWindowRows : \E rows \in WindowTables(n) : InitFilter(rows)
       \/ \E n \in 0 .. MaxFrameRows : \E rows \in WindowFrames(n, FALSE) :
              InitFilter(rows)
       \/ \E n \in 0 .. MaxFrameRows : \E rows \in WindowFrames(n, TRUE) :
              InitFilterFrame(RoutedKeys, rows)
    /\ DetectorIdle
    /\ BuilderIdle
    /\ MetricsIdle
    /\ DriverIdle
    /\ VerdictIdle
    /\ DownsamplerIdle
    /\ D1Idle
    /\ BusTrackerIdle
    /\ CollectorIdle
    /\ HtmlIdle
    /\ RouteLoopIdle
    /\ Metrics64Idle

NextWindow == WinReturnCopy \/ WinMask \/ WinSelect

\* one call of filter_arrivals_to_service_window
SpecWindow == InitWindow /\ [][NextWindow]_vars

\* a call on a batch of at most MaxHeadways headways
InitReducer ==
    /\ \E n \in 0 .. MaxHeadways : \E hs \in [1 .. n -> HeadwayValues] : InitMetrics(hs)
    /\ DetectorIdle
    /\ BuilderIdle
    /\ FilterIdle
    /\ DriverIdle
    /\ VerdictIdle
    /\ DownsamplerIdle
    /\ D1Idle
    /\ BusTrackerIdle
    /\ CollectorIdle
    /\ HtmlIdle
    /\ RouteLoopIdle
    /\ Metrics64Idle

NextMetrics == MetMoments \/ MetReturn

\* one call of compute_headway_metrics
SpecMetrics == InitReducer /\ [][NextMetrics]_vars

\* a driver on at most MaxPolls polls of a route whose pdist range is centred on
\* reference_pdist
InitPipeline ==
    /\ \E driver \in Drivers, period \in PollPeriods :
         \E n \in 0 .. MaxPolls : \E f \in [1 .. n -> Pdists \X Pdists] :
            /\ n > 0 => MidPdist(PolledFeed(f, period)) = reference_pdist
            /\ InitDriver(driver, PolledFeed(f, period))
    /\ DetectorIdle
    /\ BuilderIdle
    /\ FilterIdle
    /\ MetricsIdle
    /\ VerdictIdle
    /\ DownsamplerIdle
    /\ D1Idle
    /\ BusTrackerIdle
    /\ CollectorIdle
    /\ HtmlIdle
    /\ RouteLoopIdle
    /\ Metrics64Idle

NextPipeline == DrvPrepare \/ DrvDetect \/ DrvFilter \/ DrvHeadways \/ DrvReduce

\* one route through a pipeline driver
SpecPipeline == InitPipeline /\ [][NextPipeline]_vars

\* a validation run over at most MaxRoutes routes
InitValidation ==
    /\ \E n \in 0 .. MaxRoutes :
         \E full \in [1 .. n -> Analyses], down \in [1 .. n -> Analyses] :
            InitVerdict(full, down)
    /\ DetectorIdle
    /\ BuilderIdle
    /\ FilterIdle
    /\ MetricsIdle
    /\ DriverIdle
    /\ DownsamplerIdle
    /\ D1Idle
    /\ BusTrackerIdle
    /\ CollectorIdle
    /\ HtmlIdle
    /\ RouteLoopIdle
    /\ Metrics64Idle

NextValidation == VdCollect \/ VdTables \/ VdDelta \/ VdVerdict

\* one run of main of validate_algorithm.py
SpecValidation == InitValidation /\ [][NextValidation]_vars

\* a call on a table of at most MaxSparseRows rows, in any order
InitSparse ==
    /\ \E n \in 0 .. MaxSparseRows : \E table \in [1 .. n -> SparseRows] :
         \E interval \in Intervals : InitDownsample(table, interval)
    /\ DetectorIdle
    /\ BuilderIdle
    /\ FilterIdle
    /\ MetricsIdle
    /\ DriverIdle
    /\ VerdictIdle
    /\ D1Idle
    /\ BusTrackerIdle
    /\ CollectorIdle
    /\ HtmlIdle
    /\ RouteLoopIdle
    /\ Metrics64Idle

NextDownsample == DsGroup \/ DsReturn

\* one call of downsample_to_interval
SpecDownsample == InitSparse /\ [][NextDownsample]_vars

\* insert_vehicle_positions_batch on a list of at most MaxPositions positions
InitBatch ==
    /\ \E n \in 0 .. MaxPositions : \E m \in 0 .. 1 :
          InitInsert([k \in 1 .. n |-> k], [k \in 1 .. m |-> 0])
    /\ DetectorIdle
    /\ BuilderIdle
    /\ FilterIdle
    /\ MetricsIdle
    /\ DriverIdle
    /\ VerdictIdle
    /\ DownsamplerIdle
    /\ BusTrackerIdle
    /\ CollectorIdle
    /\ HtmlIdle
    /\ RouteLoopIdle
    /\ Metrics64Idle

NextInsert == D1Start \/ D1Chunk \/ D1Row \/ D1Execute \/ D1Return

\* insert_vehicle_positions_batch on every list of positions
SpecInsert == InitBatch /\ [][NextInsert]_vars

\* get_vehicles on a list of at most MaxRouteList routes
InitRoutes ==
    /\ \E n \in 0 .. MaxRouteList : InitVehicles([k \in 1 .. n |-> k])
    /\ DetectorIdle
    /\ BuilderIdle
    /\ FilterIdle
    /\ MetricsIdle
    /\ DriverIdle
    /\ VerdictIdle
    /\ DownsamplerIdle
    /\ D1Idle
    /\ CollectorIdle
    /\ HtmlIdle
    /\ RouteLoopIdle
    /\ Metrics64Idle

NextVehicles == BtBatch \/ BtReturn

\* get_vehicles on every list of routes
SpecVehicles == InitRoutes /\ [][NextVehicles]_vars

\* main of collect_to_d1.py at every hour of the week
InitCollect ==
    /\ \E weekday \in 0 .. 6 : \E hour \in 0 .. 23 : InitMain(weekday, hour)
    /\ DetectorIdle
    /\ BuilderIdle
    /\ FilterIdle
    /\ MetricsIdle
    /\ DriverIdle
    /\ VerdictIdle
    /\ DownsamplerIdle
    /\ D1Idle
    /\ BusTrackerIdle
    /\ HtmlIdle
    /\ RouteLoopIdle
    /\ Metrics64Idle

NextCollect ==
    \/ ColCheck \/ BtBatch \/ BtReturn \/ ColTransform
    \/ D1Start \/ D1Chunk \/ D1Row \/ D1Execute \/ D1Return
    \/ ColFinish \/ ColRaise

\* the collection script
SpecCollect == InitCollect /\ [][NextCollect]_vars

\* update_headways_html on a file of at most MaxPieces pieces
InitPage ==
    /\ \E n \in 0 .. MaxPieces : \E file \in [1 .. n -> FilePieces] :
          \E r \in 0 .. MaxRoutes : \E stats \in BOOLEAN :
             InitHtml(file, build_headway_data_js([k \in 1 .. r |-> k]), stats)
    /\ DetectorIdle
    /\ BuilderIdle
    /\ FilterIdle
    /\ MetricsIdle
    /\ DriverIdle
    /\ VerdictIdle
    /\ DownsamplerIdle
    /\ D1Idle
    /\ BusTrackerIdle
    /\ CollectorIdle
    /\ RouteLoopIdle
    /\ Metrics64Idle

NextHtml == HtmlRead \/ HtmlSubn \/ HtmlProse \/ HtmlWrite

\* update_headways_html on every file
SpecHtml == InitPage /\ [][NextHtml]_vars

\* compute_route_headway_data on the first routes of the network, D1 holding any
\* of the tables for each
InitSite ==
    /\ \E n \in 0 .. MaxRoutes : \E d1 \in [1 .. n -> RouteAnswers] :
          InitRouteLoop(SubSeq(ALL_FREQUENT_ROUTES, 1, n), d1)
    /\ DetectorIdle
    /\ BuilderIdle
    /\ FilterIdle
    /\ MetricsIdle
    /\ DriverUncalled
    /\ VerdictIdle
    /\ DownsamplerIdle
    /\ D1Idle
    /\ BusTrackerIdle
    /\ CollectorIdle
    /\ HtmlIdle
    /\ Metrics64Idle

NextSite ==
    \/ RhQuery \/ DrvPrepare \/ DrvDetect \/ DrvFilter \/ DrvHeadways \/ DrvReduce
    \/ RhNextRoute \/ RhReturn

\* compute_route_headway_data
SpecSite == InitSite /\ [][NextSite]_vars

\* compute_headway_metrics in float64 on a batch of at most MaxHeadways64 gaps of
\* whole seconds, in any order
InitRounded ==
    /\ \E n \in 1 .. MaxHeadways64 : \E seconds \in [1 .. n -> SecondsValues] :
          InitMetrics64(seconds)
    /\ DetectorIdle
    /\ BuilderIdle
    /\ FilterIdle
    /\ MetricsIdle
    /\ DriverUncalled
    /\ VerdictIdle
    /\ DownsamplerIdle
    /\ D1Idle
    /\ BusTrackerIdle
    /\ CollectorIdle
    /\ HtmlIdle
    /\ RouteLoopIdle

\* compute_headway_metrics in float64 on a batch of at most MaxCounted gaps, so many
\* of each of the CountedSeconds
InitShares ==
    /\ \E a \in 0 .. MaxCounted : \E b \in 0 .. MaxCounted - a :
       \E c \in 0 .. MaxCounted - a - b : \E d \in 0 .. MaxCounted - a - b - c :
          /\ a + b + c + d >= 1
          /\ InitMetrics64(Copies(CountedSeconds[1], a) \o Copies(CountedSeconds[2], b)
                           \o Copies(CountedSeconds[3], c) \o Copies(CountedSeconds[4], d))
    /\ DetectorIdle
    /\ BuilderIdle
    /\ FilterIdle
    /\ MetricsIdle
    /\ DriverUncalled
    /\ VerdictIdle
    /\ DownsamplerIdle
    /\ D1Idle
    /\ BusTrackerIdle
    /\ CollectorIdle
    /\ HtmlIdle
    /\ RouteLoopIdle

NextMetrics64 == MetMoments64 \/ MetReturn64

\* compute_headway_metrics in float64, any order of a few gaps
SpecRounded == InitRounded /\ [][NextMetrics64]_vars

\* compute_headway_metrics in float64, the shares of the gaps under and over the
\* thresholds
SpecShares == InitShares /\ [][NextMetrics64]_vars

---------------------------------------------------------------------------
(* Vocabulary of the properties *)

Perms(n) == {p \in [1 .. n -> 1 .. n] : \A a, b \in 1 .. n : p[a] = p[b] => a = b}

Permuted(s, p) == [k \in 1 .. Len(s) |-> s[p[k]]]

\* rows a and b of the table are samples of one vehicle, b the next in time after a
ConsecutiveSamples(table, a, b) ==
    /\ a # b
    /\ table[a].vid = table[b].vid
    /\ table[a].tmstmp <= table[b].tmstmp
    /\ \A c \in 1 .. Len(table) :
          table[c].vid = table[a].vid =>
              ~(table[a].tmstmp < table[c].tmstmp /\ table[c].tmstmp < table[b].tmstmp)

\* the step just taken appended an event
Emits == Len(arrivals') = Len(arrivals) + 1

\* the event the step appended
Emitted == arrivals'[Len(arrivals')]

EventsOf(events, v) == {k \in 1 .. Len(events) : events[k].vid = v}

\* the crossing pairs of a time-sorted group
CrossingPairs(g) ==
    {k \in 1 .. Len(g) - 1 : g[k].pdist < reference_pdist /\ reference_pdist <= g[k + 1].pdist}

\* the stepwise call and the unrolled function agree on the returned rows
StepsAgreeWithFunction == pc = "done" => result.rows = DetectRows(vehicle_positions)

---------------------------------------------------------------------------
(* C1: every event of a vehicle comes from two samples of that vehicle that *)
(* are consecutive in time, the earlier below the reference and the later   *)
(* at or above it, and lies between their timestamps; a vehicle whose       *)
(* samples are all below the reference has no event.                        *)
C1_EventsOnlyFromCrossings ==
    /\ \A n \in 1 .. Len(arrivals) :
         \E a, b \in 1 .. Len(vehicle_positions) :
            /\ vehicle_positions[a].vid = arrivals[n].vid
            /\ ConsecutiveSamples(vehicle_positions, a, b)
            /\ vehicle_positions[a].pdist < reference_pdist
            /\ reference_pdist <= vehicle_positions[b].pdist
            /\ vehicle_positions[a].tmstmp <= arrivals[n].arrival_time
            /\ arrivals[n].arrival_time <= vehicle_positions[b].tmstmp
    /\ \A v \in Vids :
         (\A k \in 1 .. Len(vehicle_positions) :
             vehicle_positions[k].vid = v => vehicle_positions[k].pdist < reference_pdist)
         => EventsOf(arrivals, v) = {}

\* the call has returned an event of vehicle 1 out of an unsorted table, and
\* vehicle 2, sampled too, never reached the reference and has none
C1_Witness ==
    /\ pc = "done"
    /\ EventsOf(result.rows, 1) # {}
    /\ GroupOf(vehicle_positions, 1) # SortByTime(GroupOf(vehicle_positions, 1))
    /\ GroupOf(vehicle_positions, 2) # <<>>
    /\ \A k \in 1 .. Len(vehicle_positions) :
          vehicle_positions[k].vid = 2 => vehicle_positions[k].pdist < reference_pdist
    /\ EventsOf(result.rows, 2) = {}

C3_FractionBelowOne ==
    [][(Emits /\ group[i].tmstmp < group[i + 1].tmstmp) =>
         LET prev == group[i]
             curr == group[i + 1]
         IN /\ 0 <= reference_pdist - prev.pdist
            /\ reference_pdist - prev.pdist < curr.pdist - prev.pdist
            /\ prev.tmstmp <= Emitted.arrival_time
            /\ Emitted.arrival_time < curr.tmstmp]_vars

(* C3 as amended: at every emission the fraction is in (0, 1], it is 1      *)
(* exactly when curr.pdist = reference, and the arrival time is             *)
(* >= prev.tmstmp and <= curr.tmstmp (= curr.tmstmp when the fraction is 1).*)
C3_FractionInHalfOpenAboveZero ==
    [][Emits =>
         LET prev == group[i]
             curr == group[i + 1]
         IN /\ 0 < reference_pdist - prev.pdist
            /\ reference_pdist - prev.pdist <= curr.pdist - prev.pdist
            /\ (reference_pdist - prev.pdist = curr.pdist - prev.pdist
                  <=> curr.pdist = reference_pdist)
            /\ prev.tmstmp <= Emitted.arrival_time
            /\ Emitted.arrival_time <= curr.tmstmp
            /\ (curr.pdist = reference_pdist => Emitted.arrival_time = curr.tmstmp)]_vars

\* an event just emitted from a pair whose later sample sits on the reference:
\* the fraction is 1 and the arrival time is the later sample's timestamp
C3_Witness ==
    /\ pc = "scan"
    /\ i >= 2
    /\ group[i - 1].pdist < reference_pdist
    /\ group[i].pdist = reference_pdist
    /\ group[i - 1].tmstmp < group[i].tmstmp
    /\ arrivals # <<>>
    /\ arrivals[Len(arrivals)] = Event(vid, group[i].tmstmp)

(* C4: at every point of the call, two events of the same vehicle are at    *)
(* least min_gap apart.                                                     *)
C4_EventsOfAVehicleMinGapApart ==
    \A m, n \in 1 .. Len(arrivals) :
        (m < n /\ arrivals[m].vid = arrivals[n].vid)
        => arrivals[n].arrival_time - arrivals[m].arrival_time >= min_gap

\* jitter: the vehicle crossed the reference twice (the second crossing less than
\* min_gap after the first) and the call returned exactly one event for it
C4_Witness ==
    /\ pc = "done"
    /\ \E v \in Vids :
         LET g == SortByTime(GroupOf(vehicle_positions, v)) IN
         /\ Cardinality(CrossingPairs(g)) = 2
         /\ Cardinality(EventsOf(result.rows, v)) = 1

(* C5: a step over a crossing pair (prev.pdist < reference <= curr.pdist)   *)
(* emits exactly one event, of the scanned vehicle, when the vehicle has no *)
(* accepted arrival yet or the interpolated time is at least min_gap after  *)
(* the last accepted one (exactly min_gap included); the event becomes the  *)
(* last accepted arrival.                                                   *)
C5_EveryTripEmitsOnce ==
    [][(pc = "scan" /\ i <= Len(group) - 1 /\ i' = i + 1) =>
         LET prev == group[i]
             curr == group[i + 1]
             num  == (reference_pdist - prev.pdist) * (curr.tmstmp - prev.tmstmp)
             den  == curr.pdist - prev.pdist
         IN (/\ prev.pdist < reference_pdist
             /\ reference_pdist <= curr.pdist
             /\ \/ last_arrival_time = <<>>
                \/ (prev.tmstmp - last_arrival_time[1]) * den + num >= min_gap * den)
            => /\ Emits
               /\ SubSeq(arrivals', 1, Len(arrivals)) = arrivals
               /\ Emitted.vid = vid
               /\ Emitted.pdist_at_arrival = reference_pdist
               /\ last_arrival_time' = <<Emitted.arrival_time>>]_vars

\* two trips of one vehicle, pdist reset to below the reference in between, the
\* second arrival exactly min_gap after the first: two events
C5_Witness ==
    /\ pc = "done"
    /\ \E m, n \in 1 .. Len(result.rows) :
         /\ m < n
         /\ result.rows[m].vid = result.rows[n].vid
         /\ result.rows[n].arrival_time - result.rows[m].arrival_time = min_gap
         /\ Cardinality(CrossingPairs(SortByTime(GroupOf(vehicle_positions, result.rows[m].vid)))) = 2

(* C6: the returned frame always has the columns (vid, arrival_time,        *)
(* pdist_at_arrival); it has no rows when the input is empty or no vehicle  *)
(* has a crossing pair; a vehicle with fewer than 2 samples has no event.   *)
C6_EmptyInputsGiveEmptyFrames ==
    pc = "done" =>
      /\ result.columns = <<"vid", "arrival_time", "pdist_at_arrival">>
      /\ (vehicle_positions = <<>> => result.rows = <<>>)
      /\ ((\A v \in Vids : CrossingPairs(SortByTime(GroupOf(vehicle_positions, v))) = {})
            => result.rows = <<>>)
      /\ \A v \in Vids :
            Len(GroupOf(vehicle_positions, v)) < 2 => EventsOf(result.rows, v) = {}

\* the call returned on an empty table
C6_Witness ==
    /\ pc = "done"
    /\ vehicle_positions = <<>>
    /\ result.rows = <<>>
    /\ Len(result.columns) = 3

(* C7 as claimed: for every table and every permutation of its rows the     *)
(* detector returns the same set of events.                                 *)
C7_RowOrderIrrelevant ==
    pc = "done" =>
      \A p \in Perms(Len(vehicle_positions)) :
          SeqToSet(DetectRows(Permuted(vehicle_positions, p))) = SeqToSet(result.rows)

\* no vehicle has two samples with the same timestamp and different pdist
TiesAgree(table) ==
    \A a, b \in 1 .. Len(table) :
        (table[a].vid = table[b].vid /\ table[a].tmstmp = table[b].tmstmp)
        => table[a].pdist = table[b].pdist

(* C7 as amended: for every table in which samples of one vehicle with the  *)
(* same timestamp have the same pdist, and every permutation of its rows,   *)
(* the detector returns the same set of events.                             *)
C7_RowOrderIrrelevantWithoutTies ==
    (pc = "done" /\ TiesAgree(vehicle_positions)) =>
      \A p \in Perms(Len(vehicle_positions)) :
          SeqToSet(DetectRows(Permuted(vehicle_positions, p))) = SeqToSet(result.rows)

\* the call returned an event from a table of distinct timestamps whose rows were
\* not in time order
C7_Witness ==
    /\ pc = "done"
    /\ result.rows # <<>>
    /\ \A a, b \in 1 .. Len(vehicle_positions) :
          a # b => vehicle_positions[a].tmstmp # vehicle_positions[b].tmstmp
    /\ \E v \in Vids :
          /\ EventsOf(result.rows, v) # {}
          /\ GroupOf(vehicle_positions, v) # SortByTime(GroupOf(vehicle_positions, v))

(* C8: the events returned for the combined table are exactly the events of *)
(* each vehicle detected on its own rows alone, whatever the interleaving   *)
(* of the vehicles' rows; in particular an event of one vehicle is never    *)
(* suppressed by another vehicle's arrival.                                 *)
C8_VehiclesIndependent ==
    pc = "done" =>
      /\ SeqToSet(result.rows)
           = UNION {SeqToSet(DetectRows(GroupOf(vehicle_positions, v))) : v \in Vids}
      /\ \A v \in Vids :
            Cardinality(EventsOf(result.rows, v))
              = Len(DetectRows(GroupOf(vehicle_positions, v)))

\* two different vehicles returned with arrivals less than min_gap apart
C8_Witness ==
    /\ pc = "done"
    /\ \E m, n \in 1 .. Len(result.rows) :
         /\ result.rows[m].vid < result.rows[n].vid
         /\ result.rows[n].arrival_time - result.rows[m].arrival_time < min_gap
         /\ result.rows[m].arrival_time - result.rows[n].arrival_time < min_gap

\* the k-th smallest of the arrival times of rows, counted with repetitions
KthSmallest(rows, k) ==
    CHOOSE t \in {rows[j].arrival_time : j \in 1 .. Len(rows)} :
        /\ Cardinality({j \in 1 .. Len(rows) : rows[j].arrival_time < t}) < k
        /\ k <= Cardinality({j \in 1 .. Len(rows) : rows[j].arrival_time <= t})

(* C9: for n arrivals in any order the builder returns n-1 headways, the    *)
(* k-th being the difference in minutes between the (k+1)-th and the k-th   *)
(* smallest arrival time, hence >= 0; every permutation of the input and    *)
(* the sorted input give the same sequence; n <= 1 gives the empty sequence.*)
C9_HeadwaysAreSortedDifferences ==
    hw_pc = "done" =>
      LET n == Len(hw_arrivals) IN
      /\ n <= 1 => headways = <<>>
      /\ n >= 2 =>
           /\ Len(headways) = n - 1
           /\ \A k \in 1 .. n - 1 :
                /\ headways[k] >= 0
                /\ 60 * headways[k]
                     = KthSmallest(hw_arrivals, k + 1) - KthSmallest(hw_arrivals, k)
      /\ \A p \in Perms(n) : HeadwaysOf(Permuted(hw_arrivals, p)) = headways
      /\ HeadwaysOf(SortByArrival(hw_arrivals)) = headways

\* three arrivals handed over latest first, two different headways returned
C9_Witness ==
    /\ hw_pc = "done"
    /\ Len(hw_arrivals) = 3
    /\ hw_arrivals[1].arrival_time > hw_arrivals[2].arrival_time
    /\ hw_arrivals[2].arrival_time > hw_arrivals[3].arrival_time
    /\ Len(headways) = 2
    /\ headways[1] > 0
    /\ headways[2] > headways[1]

\* the arrival time t falls on Monday-Friday with 6 <= hour < 21, or on
\* Saturday/Sunday with 9 <= hour < 21
InWindowAsClaimed(t) ==
    \E d \in 0 .. 6, h \in 0 .. 23 :
        /\ t - (d * 24 + h) * 60 \in 0 .. 59
        /\ \/ d <= 4 /\ 6 <= h /\ h < 21
           \/ d >= 5 /\ 9 <= h /\ h < 21

(* C10: the filter returns exactly the arrivals whose timestamp falls on    *)
(* Monday-Friday with 6 <= hour < 21 or on Saturday/Sunday with             *)
(* 9 <= hour < 21: a row is in the result iff it does, and the result has   *)
(* as many rows as the input has such rows.                                 *)
C10_RetainedIffInServiceWindow ==
    win_pc = "done" =>
      /\ \A k \in 1 .. Len(win_arrivals) :
            win_arrivals[k] \in SeqToSet(win_result)
              <=> InWindowAsClaimed(win_arrivals[k].arrival_time)
      /\ Len(win_result)
           = Cardinality({k \in 1 .. Len(win_arrivals) :
                            InWindowAsClaimed(win_arrivals[k].arrival_time)})

\* Tuesday 07:00 and Saturday 07:00 handed over: only Tuesday's is returned
C10_Witness ==
    /\ win_pc = "done"
    /\ win_arrivals = <<Event(1, (1 * 24 + 7) * 60), Event(1, (5 * 24 + 7) * 60)>>
    /\ win_result = <<Event(1, (1 * 24 + 7) * 60)>>

\* res is s with some rows left out: the rows that stay are unchanged and in order
IsSubsequence(res, s) ==
    \E f \in [1 .. Len(res) -> 1 .. Len(s)] :
        /\ \A a, b \in 1 .. Len(res) : a < b => f[a] < f[b]
        /\ \A k \in 1 .. Len(res) : res[k] = s[f[k]]

(* C11: the filter only changes row membership: the returned frame has the  *)
(* columns of the input, every returned row is an input row with every      *)
(* field unchanged and carries exactly those columns, the returned rows     *)
(* keep their relative input order, an empty input gives an empty output    *)
(* with the same columns, and no step of the call modifies the input frame. *)
C11_OnlyRowMembershipChanges ==
    /\ [](win_pc = "done" =>
            /\ win_result_columns = win_columns
            /\ IsSubsequence(win_result, win_arrivals)
            /\ \A k \in 1 .. Len(win_result) :
                   DOMAIN win_result[k] = SeqToSet(win_columns)
            /\ (win_arrivals = <<>> => win_result = <<>>))
    /\ [][win_arrivals' = win_arrivals /\ win_columns' = win_columns]_vars

\* three arrivals with a route column handed over latest first, the middle one
\* outside the window: the other two are returned, still latest first
C11_Witness ==
    /\ win_pc = "done"
    /\ win_columns = RoutedKeys
    /\ Len(win_arrivals) = 3
    /\ win_result = <<win_arrivals[1], win_arrivals[3]>>
    /\ win_arrivals[1].arrival_time > win_arrivals[3].arrival_time
    /\ win_arrivals[1].vid # win_arrivals[3].vid
    /\ win_result_columns = RoutedKeys

\* the float x is the quotient p / q (q > 0)
IsQuotient(x, p, q) == x.kind = "num" /\ x.num * q = p * x.den

\* the square of a finite float, as a quotient
Squared(x) == IF x.kind = "root" THEN Num(x.num, x.den) ELSE Num(x.num * x.num, x.den * x.den)

\* how many headways of the batch satisfy the test
HowMany(Test(_)) == Cardinality({k \in 1 .. Len(met_headways) : Test(met_headways[k])})

(* C12: for every batch of n >= 1 headways the reducer returns              *)
(* pct_under_10 = 100 * |{h : h <= 10}| / n, pct_under_12 likewise with 12  *)
(* (a headway of exactly 10 or 12 counts), pct_over_15 =                    *)
(* 100 * |{h : h > 15}| / n and pct_over_20 likewise with 20 (a headway of  *)
(* exactly 15 or 20 does not count).                                        *)
C12_PercentagesInclusiveUnderStrictOver ==
    (met_pc = "done" /\ Len(met_headways) >= 1) =>
      LET n == Len(met_headways) IN
      /\ IsQuotient(metrics.pct_under_10, 100 * HowMany(LAMBDA h : h <= 10), n)
      /\ IsQuotient(metrics.pct_under_12, 100 * HowMany(LAMBDA h : h <= 12), n)
      /\ IsQuotient(metrics.pct_over_15, 100 * HowMany(LAMBDA h : h > 15), n)
      /\ IsQuotient(metrics.pct_over_20, 100 * HowMany(LAMBDA h : h > 20), n)

\* the batch 10, 15, 20: the 10 counts as under 10 and under 12, the 15 counts
\* for nothing, the 20 counts as over 15 only
C12_Witness ==
    /\ met_pc = "done"
    /\ met_headways = <<10, 15, 20>>
    /\ metrics.pct_under_10 = Num(100, 3)
    /\ metrics.pct_under_12 = Num(100, 3)
    /\ metrics.pct_over_15 = Num(100, 3)
    /\ metrics.pct_over_20 = Num(0, 1)

(* C13: for every batch of n >= 1 headways bunching_rate =                  *)
(* 100 * |{h : h < 2}| / n, so a batch with a headway equal to 2 and none   *)
(* below 2 has bunching_rate = 0.                                           *)
C13_BunchingRateStrictlyUnderTwo ==
    (met_pc = "done" /\ Len(met_headways) >= 1) =>
      /\ IsQuotient(metrics.bunching_rate, 100 * HowMany(LAMBDA h : h < 2),
                    Len(met_headways))
      /\ ((\A k \in 1 .. Len(met_headways) : met_headways[k] >= 2)
            => metrics.bunching_rate = Num(0, 1))

\* a batch holding a headway of exactly 2 and none below: bunching_rate is 0
C13_Witness ==
    /\ met_pc = "done"
    /\ \E k \in 1 .. Len(met_headways) : met_headways[k] = 2
    /\ \A k \in 1 .. Len(met_headways) : met_headways[k] >= 2
    /\ metrics.bunching_rate = Num(0, 1)

\* the batch is n >= 1 copies of one positive headway
Uniform(hs) ==
    /\ Len(hs) >= 1
    /\ hs[1] > 0
    /\ \A k \in 1 .. Len(hs) : hs[k] = hs[1]

\* excess_wait_time is (sum h^2) / (2 * sum h) - mean / 2, stated without
\* division: 2 * n * sum h * ewt = n * sum h^2 - (sum h)^2
EwtByFormula ==
    LET n  == Len(met_headways)
        S  == SumOf(met_headways, 1)
        S2 == SumOf(met_headways, 2)
    IN (n >= 1 /\ S > 0) =>
          IsQuotient(metrics.excess_wait_time, n * S2 - S * S, 2 * n * S)

(* C14 as claimed: excess_wait_time = (sum h^2)/(2 sum h) - mean/2, and for *)
(* every batch of n >= 1 identical positive headways the reducer returns    *)
(* excess_wait_time = 0 and cv_headway = 0.                                 *)
C14_UniformBatchZeroEwtAndCv ==
    met_pc = "done" =>
      /\ EwtByFormula
      /\ Uniform(met_headways) =>
           /\ metrics.excess_wait_time = Num(0, 1)
           /\ metrics.cv_headway = Num(0, 1)

(* C14 as amended: excess_wait_time = (sum h^2)/(2 sum h) - mean/2; for     *)
(* every batch of n >= 1 identical positive headways excess_wait_time = 0;  *)
(* cv_headway = 0 for such a batch of n >= 2, and for n = 1 std_headway and *)
(* cv_headway are NaN (the sample deviation of one value).                  *)
C14_UniformBatchZeroEwtAndCvFromTwo ==
    met_pc = "done" =>
      /\ EwtByFormula
      /\ Uniform(met_headways) =>
           /\ metrics.excess_wait_time = Num(0, 1)
           /\ Len(met_headways) >= 2 => metrics.cv_headway = Num(0, 1)
           /\ Len(met_headways) = 1 =>
                 metrics.std_headway = NaN /\ metrics.cv_headway = NaN

\* three headways of 10 minutes: excess_wait_time and cv_headway are 0
C14_Witness ==
    /\ met_pc = "done"
    /\ met_headways = <<10, 10, 10>>
    /\ metrics.excess_wait_time = Num(0, 1)
    /\ metrics.cv_headway = Num(0, 1)
    /\ metrics.mean_headway = Num(10, 1)

(* C15: when the mean of the batch is 0 the reducer does not raise: the     *)
(* division by the zero sum on line 23 leaves NaN in ewt, and the dict is   *)
(* returned with cv_headway = inf; otherwise cv_headway = std / mean with   *)
(* the sample (n - 1) deviation: cv^2 * (n - 1) * (sum h)^2 =               *)
(* n * (n * sum h^2 - (sum h)^2) for n >= 2, and NaN for n = 1 where that   *)
(* deviation is NaN.                                                        *)
C15_CvInfiniteOnZeroMean ==
    LET n  == Len(met_headways)
        S  == SumOf(met_headways, 1)
        S2 == SumOf(met_headways, 2)
        cv == metrics.cv_headway
    IN /\ (met_pc = "moments" /\ n >= 1 /\ S = 0) =>
             met_locals.mean_h = Num(0, 1) /\ met_locals.ewt = NaN
       /\ met_pc = "done" =>
             /\ (n >= 1 /\ S = 0) => cv = Inf /\ metrics.excess_wait_time = NaN
             /\ (n >= 2 /\ S # 0) =>
                   /\ cv.kind \in {"num", "root"}
                   /\ IsQuotient(Squared(cv), n * (n * S2 - S * S), (n - 1) * S * S)
             /\ (n = 1 /\ S # 0) => cv = NaN

\* two headways of 0 minutes: the mean is 0, cv_headway is inf and the dict is
\* returned (its excess_wait_time being 0 / 0)
C15_Witness ==
    /\ met_pc = "done"
    /\ met_headways = <<0, 0>>
    /\ metrics.mean_headway = Num(0, 1)
    /\ metrics.cv_headway = Inf
    /\ metrics.excess_wait_time = NaN

(* C16: in every run of a pipeline driver the reducer is reached only with  *)
(* a batch of n >= 1 headways whose sum is > 0; a route with fewer than 2   *)
(* arrivals, fewer than 2 in-window arrivals or no remaining headway is     *)
(* skipped before the reducer is called.                                    *)
C16_ReducerReachedWithPositiveSum ==
    /\ drv_pc = "reduce" =>
          Len(drv_headways) >= 1 /\ SumOf(drv_headways, 1) > 0
    /\ \A k \in 1 .. Len(drv_reduced) :
          Len(drv_reduced[k]) >= 1 /\ SumOf(drv_reduced[k], 1) > 0
    /\ drv_pc = "skipped" => drv_reduced = <<>>
    /\ drv_pc \in {"reduce", "done"} =>
          Len(drv_arrivals) >= 2 /\ drv_headways # <<>>

\* the routes analysed at both resolutions
InBoth == {r \in 1 .. Len(vd_full) : vd_full[r] # <<>> /\ vd_down[r] # <<>>}

RECURSIVE SumAbsDiff(_)
\* the sum over the routes rs of |down_r - full_r|
SumAbsDiff(rs) ==
    IF rs = {} THEN 0
    ELSE LET r == CHOOSE x \in rs : TRUE
         IN Abs(vd_down[r][1] - vd_full[r][1]) + SumAbsDiff(rs \ {r})

(* C17: the verdict is decided by the mean absolute difference of           *)
(* pct_under_10 over the routes present in both runs: PASS iff              *)
(* mean_r |down_r - full_r| <= 5, MARGINAL iff it is > 5 and <= 10, FAIL    *)
(* iff it is > 10.                                                          *)
C17_VerdictByMeanAbsoluteDifference ==
    verdict # "none" =>
      LET n == Cardinality(InBoth)
          total == SumAbsDiff(InBoth)
      IN /\ verdict = "PASS" <=> total <= 5 * n
         /\ verdict = "MARGINAL" <=> (total > 5 * n /\ total <= 10 * n)
         /\ verdict = "FAIL" <=> total > 10 * n

\* the samples of vehicle v in time order, ties in input order
SeriesOf(table, v) == SortByTime(GroupOf(table, v))

\* twice the median gap between consecutive samples of a series of 2 or more
TwiceMedianGap(series) ==
    LET gaps == [k \in 1 .. Len(series) - 1 |-> series[k + 1].tmstmp - series[k].tmstmp]
        m    == Len(gaps)
        Kth(k) == CHOOSE d \in SeqToSet(gaps) :
                     /\ Cardinality({j \in 1 .. m : gaps[j] < d}) < k
                     /\ k <= Cardinality({j \in 1 .. m : gaps[j] <= d})
    IN IF m % 2 = 1 THEN 2 * Kth((m + 1) \div 2) ELSE Kth(m \div 2) + Kth(m \div 2 + 1)

\* the target interval is not larger than the median gap of vehicle v
AtMostMedianGap(table, v, interval) ==
    /\ Len(GroupOf(table, v)) >= 2
    /\ TwiceMedianGap(SeriesOf(table, v)) > 0
    /\ 2 * interval <= TwiceMedianGap(SeriesOf(table, v))

\* the events of vehicle v among rows, in order
EventSeqOf(rows, v) == SelectSeq(rows, LAMBDA e : e.vid = v)

Tolerances == 0 .. (2 * reference_pdist)

RECURSIVE ToleranceTimes(_, _, _, _)
\* the tolerance-window scan of a series from sample k on: armed is 'seen below
\* reference - tolerance since the last detection'; an event fires at the first
\* sample inside [reference - tolerance, reference + tolerance] while armed, at
\* that sample's own timestamp, and disarms
ToleranceTimes(series, tolerance, k, armed) ==
    IF k > Len(series) THEN <<>>
    ELSE LET d == series[k].pdist
             lower == reference_pdist - tolerance
             upper == reference_pdist + tolerance
         IN IF armed /\ lower <= d /\ d <= upper
            THEN <<series[k].tmstmp>> \o ToleranceTimes(series, tolerance, k + 1, FALSE)
            ELSE ToleranceTimes(series, tolerance, k + 1, armed \/ d < lower)

\* the arrival times of the events of vehicle v among rows, in order
ArrivalTimesOf(rows, v) ==
    LET es == EventSeqOf(rows, v) IN [k \in 1 .. Len(es) |-> es[k].arrival_time]

C20_DivisorPositive ==
    [][(pc = "scan" /\ i <= Len(group) - 1 /\ i' = i + 1) =>
         LET prev == group[i]
             curr == group[i + 1]
         IN /\ curr.pdist = prev.pdist => arrivals' = arrivals
            /\ (Crossing(prev, curr) /\ curr.pdist - prev.pdist # 0)
                  => curr.pdist - prev.pdist > 0
            /\ Emits => curr.pdist - prev.pdist > 0]_vars

\* the first pair of a group scanned, both samples at the reference: no event
C20_Witness ==
    /\ pc = "scan"
    /\ i = 2
    /\ group[1].pdist = reference_pdist
    /\ group[2].pdist = reference_pdist
    /\ group[1].tmstmp < group[2].tmstmp
    /\ arrivals = <<>>

\* ceil(n / d) for d > 0
CeilDiv(n, d) == IF n % d = 0 THEN n \div d ELSE n \div d + 1

\* the rows the calls made so far carried, call after call
RowsSent == Concat([k \in 1 .. Len(d1_calls) |-> d1_calls[k].rows])

(* C21: every INSERT insert_vehicle_positions_batch issues carries at most 7 *)
(* rows and 13 bound parameters per row (at most 91 <= 100), the rows sent   *)
(* so far are the first rows of the input in input order, each sent once;    *)
(* when the call returns it has issued exactly ceil(n/7) calls, has sent     *)
(* every position and returns n; for n = 0 it returns 0 without any call.    *)
C21_ChunkedInsert ==
    /\ \A k \in 1 .. Len(d1_calls) :
          /\ Len(d1_calls[k].rows) >= 1
          /\ Len(d1_calls[k].rows) <= 7
          /\ Len(d1_calls[k].params) = 13 * Len(d1_calls[k].rows)
          /\ Len(d1_calls[k].params) <= 91
          /\ 91 <= 100
    /\ Len(RowsSent) <= Len(d1_positions)
    /\ RowsSent = SubSeq(d1_positions, 1, Len(RowsSent))
    /\ d1_pc = "returned" =>
          /\ Len(d1_calls) = CeilDiv(Len(d1_positions), 7)
          /\ RowsSent = d1_positions
          /\ d1_return = <<Len(d1_positions)>>
          /\ d1_positions = <<>> => d1_calls = <<>> /\ d1_return = <<0>>

\* fifteen positions inserted by three calls of 7, 7 and 1 rows
C21_Witness ==
    /\ d1_pc = "returned"
    /\ Len(d1_positions) = 15
    /\ Len(d1_calls) = 3
    /\ Len(d1_calls[1].rows) = 7
    /\ Len(d1_calls[3].rows) = 1
    /\ d1_return = <<15>>

\* the API answered with an error entry whose text has "No data found" in it
AnsweredNoData(resp) ==
    /\ resp.status = "ok"
    /\ resp.error[1]
    /\ \E k \in 1 .. Len(resp.error[2]) : resp.error[2][k] = NoDataMsg

\* the API answered without an error entry
AnsweredVehicles(resp) == resp.status = "ok" /\ ~resp.error[1]

\* the vehicles an answer contributes to the result
Contribution(resp) ==
    IF ~AnsweredVehicles(resp) \/ resp.vehicle.kind = "absent" THEN <<>>
    ELSE IF resp.vehicle.kind = "dict" THEN <<resp.vehicle.value>>
    ELSE resp.vehicle.value

(* C22: get_vehicles requests the routes in consecutive batches of at most  *)
(* 10, one call per batch, each route in exactly one batch; a batch answered *)
(* with an error that has 'No data found' in it contributes no vehicles and  *)
(* the loop goes on, so a call that returns has requested every batch and    *)
(* returns the vehicles of the batches answered without error (the empty     *)
(* list if there are none); any other error ends the call by raising.        *)
C22_BatchesOfTen ==
    /\ \A k \in 1 .. Len(bt_calls) :
          /\ Len(bt_calls[k].rt) >= 1
          /\ Len(bt_calls[k].rt) <= 10
          /\ \A j \in 1 .. Len(bt_calls[k].rt) :
                /\ 10 * (k - 1) + j <= Len(bt_routes)
                /\ bt_calls[k].rt[j] = bt_routes[10 * (k - 1) + j]
          /\ k < Len(bt_calls) =>
                /\ Len(bt_calls[k].rt) = 10
                /\ AnsweredVehicles(bt_calls[k].response)
                      \/ AnsweredNoData(bt_calls[k].response)
    /\ all_vehicles =
          Concat([k \in 1 .. Len(bt_calls) |-> Contribution(bt_calls[k].response)])
    /\ bt_pc = "raised" <=>
          /\ bt_calls # <<>>
          /\ ~AnsweredVehicles(bt_calls[Len(bt_calls)].response)
          /\ ~AnsweredNoData(bt_calls[Len(bt_calls)].response)
    /\ bt_pc = "returned" =>
          /\ Len(bt_calls) = CeilDiv(Len(bt_routes), 10)
          /\ Concat([k \in 1 .. Len(bt_calls) |-> bt_calls[k].rt]) = bt_routes

\* 21 routes in three batches: the second answered "No data found", the third
\* with vehicles, which are returned
C22_Witness ==
    /\ bt_pc = "returned"
    /\ Len(bt_routes) = 21
    /\ Len(bt_calls) = 3
    /\ AnsweredNoData(bt_calls[2].response)
    /\ AnsweredVehicles(bt_calls[3].response)
    /\ Len(bt_calls[3].rt) = 1
    /\ all_vehicles # <<>>

\* the Chicago local time of the run is outside the service window
OutsideWindow ==
    IF col_weekday \in 0 .. 4
    THEN col_hour < 6 \/ col_hour >= 21
    ELSE col_hour < 9 \/ col_hour >= 21

(* C23: should_collect is true exactly when the Chicago hour is in the       *)
(* service window of the day's kind; outside the window main makes no call   *)
(* of the Bus Tracker API, writes no position to D1, and its one step is to  *)
(* return 0.                                                                 *)
C23_CollectsOnlyInWindow ==
    /\ [](/\ should_collect(col_weekday, col_hour) <=> ~OutsideWindow
          /\ should_collect(col_weekday, col_hour)
                <=> is_in_service_window(col_hour, col_weekday \in 0 .. 4)
          /\ OutsideWindow =>
                /\ bt_pc = "uncalled"
                /\ bt_calls = <<>>
                /\ d1_pc = "uncalled"
                /\ d1_calls = <<>>
                /\ d1_table = <<>>
                /\ col_pc \in {"start", "returned"}
                /\ col_pc = "returned" => col_return = <<0>>)
    /\ [][(col_pc = "start" /\ OutsideWindow) =>
             (col_pc' = "returned" /\ col_return' = <<0>>)]_vars

\* a run on Saturday at 8 has returned 0 without a request or a write
C23_Witness ==
    /\ col_weekday = 5
    /\ col_hour = 8
    /\ col_pc = "returned"
    /\ col_return = <<0>>
    /\ bt_calls = <<>>
    /\ d1_calls = <<>>

\* the text has a HEADWAY_DATA declaration: the opening and, after it, a `];`
HasDeclaration(content) ==
    \E a \in 1 .. Len(content) : \E b \in a + 1 .. Len(content) :
       content[a] = "open" /\ content[b] = "close"

\* where the first declaration of the text starts and ends
DeclStart(content) ==
    CHOOSE a \in 1 .. Len(content) :
       /\ content[a] = "open"
       /\ \E b \in a + 1 .. Len(content) : content[b] = "close"
       /\ \A c \in 1 .. a - 1 :
             ~(content[c] = "open" /\ \E b \in c + 1 .. Len(content) : content[b] = "close")
DeclEnd(content) ==
    CHOOSE b \in DeclStart(content) + 1 .. Len(content) :
       /\ content[b] = "close"
       /\ \A c \in DeclStart(content) + 1 .. b - 1 : content[c] # "close"

\* piece y is piece x as the rewriting of the date line and the prose leaves it
KeptAs(x, y) ==
    \/ y = x
    \/ x = "updated_old" /\ y = "updated_new"
    \/ x = "prose_old" /\ y = "prose_new"

(* C24: update_headways_html raises RuntimeError exactly when the file has  *)
(* no HEADWAY_DATA declaration, and the file is written only by the last    *)
(* step of a call that did not raise, so a call that raised left the file   *)
(* as it read it; when the declaration is present, the file written has the *)
(* new block in its place, what stood before it kept in order, and, when    *)
(* it is the only declaration, what stood after it too.                     *)
C24_RaisesBeforeWriting ==
    /\ [](/\ html_pc = "raised" => ~HasDeclaration(html_content) /\ html_file = html_content
          /\ html_pc \in {"replaced", "rewritten", "done"} => HasDeclaration(html_content)
          /\ html_pc = "done" =>
                LET a == DeclStart(html_content)
                    b == DeclEnd(html_content)
                    after == a - 1 + Len(new_data_js)
                IN  /\ Len(html_file) >= after
                    /\ SubSeq(html_file, a, after) = new_data_js
                    /\ \A k \in 1 .. a - 1 : KeptAs(html_content[k], html_file[k])
                    /\ ~HasDeclaration(SubSeq(html_content, b + 1, Len(html_content))) =>
                          /\ Len(html_file) - after = Len(html_content) - b
                          /\ \A k \in 1 .. Len(html_content) - b :
                                KeptAs(html_content[b + k], html_file[after + k]))
    /\ [][html_file' # html_file =>
             (html_pc = "rewritten" /\ html_pc' = "done" /\ html_count > 0)]_vars

\* a file without the declaration: the call has raised, the file is as it was
C24_Witness ==
    /\ html_pc = "raised"
    /\ Len(html_file) = 3
    /\ html_file[1] = "open"
    /\ html_file[2] = "updated_old"
    /\ html_file[3] = "text"

\* a file with the declaration: the call has written the new block over it
C24_WitnessReplaced ==
    /\ html_pc = "done"
    /\ html_content = <<"text", "open", "text", "close">>
    /\ html_file = <<"text", "open", "entry", "close">>

\* the interpolated time of the crossing pair (k, k + 1) of a time-sorted series
CrossTime(g, k) ==
    g[k].tmstmp
    + ((reference_pdist - g[k].pdist) * (g[k + 1].tmstmp - g[k].tmstmp))
      \div (g[k + 1].pdist - g[k].pdist)

\* the times of all crossings of a series
CrossTimes(g) == {CrossTime(g, k) : k \in CrossingPairs(g)}

\* the times of the events returned for vehicle v
ReturnedTimes(v) == {result.rows[k].arrival_time : k \in EventsOf(result.rows, v)}

(* C25: the cooldown runs from the vehicle's last accepted crossing: of the *)
(* crossings of a vehicle, one is emitted exactly when no emitted crossing  *)
(* precedes it or it is at least min_gap after the latest emitted crossing  *)
(* before it, whatever suppressed crossings lie in between; so with three   *)
(* crossings a < b < c, b - a < min_gap and c - a >= min_gap, exactly a     *)
(* and c are emitted, even if c - b < min_gap.                              *)
C25_CooldownFromLastAccepted ==
    pc = "done" =>
      \A v \in Vids :
         LET crossings == CrossTimes(SeriesOf(vehicle_positions, v))
             emitted == ReturnedTimes(v)
         IN  /\ emitted \subseteq crossings
             /\ \A t \in crossings :
                   LET before == {e \in emitted : e < t}
                   IN  t \in emitted <=>
                          \/ before = {}
                          \/ \E e \in before :
                                /\ \A d \in before : d <= e
                                /\ t - e >= min_gap
             /\ \A a, b, c \in crossings :
                   (/\ crossings = {a, b, c}
                    /\ a < b
                    /\ b < c
                    /\ b - a < min_gap
                    /\ c - a >= min_gap)
                   => ArrivalTimesOf(result.rows, v) = <<a, c>>

\* three crossings two ticks apart under a min_gap of three ticks: the second is
\* suppressed, the third is emitted although it is less than min_gap after the second
C25_Witness ==
    /\ pc = "done"
    /\ min_gap = 3 * TimeUnit
    /\ LET crossings == CrossTimes(SeriesOf(vehicle_positions, 1))
       IN  \E a, b, c \in crossings :
              /\ crossings = {a, b, c}
              /\ b - a = 2 * TimeUnit
              /\ c - b = 2 * TimeUnit
              /\ ArrivalTimesOf(result.rows, 1) = <<a, c>>

\* the integer nearest to p / q (q > 0), the even one of the two when p / q is
\* halfway between them
Nearest(p, q) ==
    CHOOSE r \in 0 .. p + 1 :
       /\ 2 * Abs(p - r * q) <= q
       /\ 2 * Abs(p - r * q) = q => r % 2 = 0

\* round(interval / median gap) clamped to at least 1, the median gap given twice
ClaimedStride(interval, median2) ==
    IF Nearest(2 * interval, median2) >= 1 THEN Nearest(2 * interval, median2) ELSE 1

\* vehicle v is decimated: it has two samples or more and a non-zero median gap
Decimated(table, v) ==
    /\ Len(GroupOf(table, v)) >= 2
    /\ TwiceMedianGap(SeriesOf(table, v)) # 0

(* C26: for each vehicle with at least 2 samples and a non-zero median gap  *)
(* downsample_to_interval returns exactly the samples at positions 0, s,    *)
(* 2s, ... of the vehicle's timestamp-sorted series, s being                *)
(* round(interval_sec / median_gap) clamped to at least 1; what it returns  *)
(* for a vehicle is a subsequence of that series in its order and has the   *)
(* series' first sample; a vehicle with fewer than 2 samples or a zero      *)
(* median gap gets its whole series back.                                   *)
C26_KeepsEveryStrideth ==
    ds_pc = "done" =>
      /\ \A v \in GroupKeys(ds_positions) :
            LET series == SeriesOf(ds_positions, v)
                kept == GroupOf(ds_out, v)
            IN  /\ IsSubsequence(kept, series)
                /\ kept # <<>>
                /\ kept[1] = series[1]
                /\ IF Decimated(ds_positions, v)
                   THEN LET step == ClaimedStride(ds_interval, TwiceMedianGap(series))
                        IN  /\ Len(kept) = CeilDiv(Len(series), step)
                            /\ \A k \in 1 .. Len(kept) :
                                  kept[k] = series[(k - 1) * step + 1]
                   ELSE kept = series
      /\ GroupKeys(ds_out) = GroupKeys(ds_positions)

\* three samples of one vehicle a tick apart, the target interval three ticks: the
\* stride is 3 and the first sample alone is kept
C26_Witness ==
    /\ ds_pc = "done"
    /\ ds_interval = 3 * TimeUnit
    /\ Len(ds_positions) = 3
    /\ GroupKeys(ds_positions) = {1}
    /\ TwiceMedianGap(SeriesOf(ds_positions, 1)) = 2 * TimeUnit
    /\ Len(ds_out) = 1
    /\ ds_out[1] = SeriesOf(ds_positions, 1)[1]

\* two samples of one vehicle with the same timestamp: the median gap is zero and
\* both are returned
C26_WitnessZeroGap ==
    /\ ds_pc = "done"
    /\ Len(ds_positions) = 2
    /\ GroupKeys(ds_positions) = {1}
    /\ ds_positions[1].tmstmp = ds_positions[2].tmstmp
    /\ ds_out = ds_positions

\* what D1 holds for the k-th route, and its rows with a pdist
HeldFor(k) == rh_d1[k].rows
UsableFor(k) == SelectSeq(HeldFor(k), LAMBDA r : r.pdist # NoPdist)

\* the route has no rows
NoRows(k) == HeldFor(k) = <<>>

\* the route has rows, none with a usable pdist
NoUsablePdist(k) ==
    /\ HeldFor(k) # <<>>
    /\ "pdist" \notin DOMAIN HeldFor(k)[1] \/ UsableFor(k) = <<>>

\* the route has usable rows on which a step of the pipeline raises
PipelineRaises(k) ==
    /\ ~NoRows(k)
    /\ ~NoUsablePdist(k)
    /\ "vid" \notin DOMAIN HeldFor(k)[1]

\* the pipeline runs on the route's rows
Analysed(k) == ~NoRows(k) /\ ~NoUsablePdist(k) /\ ~PipelineRaises(k)

\* the route has fewer than 2 arrivals, detected or left by the service window
FewArrivals(k) ==
    /\ Analysed(k)
    /\ \/ Len(DetectRows(UsableFor(k))) < 2
       \/ Len(FilterRows(ArrivalsAt(DetectRows(UsableFor(k))))) < 2

\* the route has 2 arrivals or more in the service window and no headway of at
\* most 120 minutes
NoHeadwayInRange(k) ==
    /\ Analysed(k)
    /\ ~FewArrivals(k)
    /\ \A h \in SeqToSet(HeadwaysOf(InSeconds(FilterRows(ArrivalsAt(DetectRows(UsableFor(k))))))) :
          h > 120

\* the positions of route k in the returned list
PlacesOf(k) == {j \in 1 .. Len(rh_results) : rh_results[j].route = rh_routes[k]}

\* the returned list is in descending order of observed
DescendingByObserved ==
    \A a, b \in 1 .. Len(rh_results) :
       a < b => rh_results[a].observed >= rh_results[b].observed

C27_WitnessSorted ==
    /\ rh_pc = "returned"
    /\ Len(rh_results) = 2
    /\ rh_results[1].route = rh_routes[2]
    /\ rh_results[1].observed > rh_results[2].observed

\* the rows of the first chunks calls of a run, in input order
RowsOfChunks(chunks) ==
    SubSeq(d1_positions, 1,
           IF 7 * chunks < Len(d1_positions) THEN 7 * chunks ELSE Len(d1_positions))

\* the table holds the rows somewhere, next to each other and in order
HoldsRows(table, rows) ==
    \E s \in 0 .. Len(table) :
        /\ s + Len(rows) <= Len(table)
        /\ SubSeq(table, s + 1, s + Len(rows)) = rows

(* C30: insert_vehicle_positions_batch is not atomic.  A call of execute     *)
(* that fails (HTTP error status or "success" false) is the last call of the *)
(* run: the error leaves the function, no later chunk is sent and no count   *)
(* is returned; every chunk before the failing one was answered with         *)
(* success, its rows are in the table, and they stay there: after the error  *)
(* the table, the calls and the missing return value no longer change.       *)
C30_NotAtomic ==
    /\ [](/\ \A k \in 1 .. Len(d1_calls) :
                d1_calls[k].answer # "success" =>
                   /\ k = Len(d1_calls)
                   /\ d1_pc = "raised"
          /\ d1_pc = "raised" =>
                LET k == Len(d1_calls) IN
                /\ k >= 1
                /\ d1_calls[k].answer \in {"http_error", "not_success"}
                /\ d1_calls[k].rows = Chunk(d1_positions, 7 * (k - 1))
                /\ \A j \in 1 .. k - 1 : d1_calls[j].answer = "success"
                /\ d1_return = <<>>
                /\ HoldsRows(d1_table, RowsOfChunks(k - 1)))
    /\ [][d1_pc = "raised" =>
             /\ d1_pc' = "raised"
             /\ d1_calls' = d1_calls
             /\ d1_table' = d1_table
             /\ d1_return' = d1_return]_vars

\* fifteen positions, the second call answered with "success" false: the run
\* ends with an error after two calls, the first seven rows are in the table,
\* the other eight are not, and nothing is returned
C30_Witness ==
    /\ d1_pc = "raised"
    /\ Len(d1_positions) = 15
    /\ Len(d1_calls) = 2
    /\ d1_calls[1].answer = "success"
    /\ d1_calls[2].answer = "not_success"
    /\ d1_table = SubSeq(d1_positions, 1, 7)
    /\ d1_return = <<>>

\* the call of the reducer in float64 has returned its dict
Returned64 == m64_pc = "done"

\* the keys of the dict that hold a percentage
PercentageKeys == {"pct_under_10", "pct_under_12", "pct_over_15", "pct_over_20",
                   "bunching_rate"}

\* x is a number between 0 and 100
IsPercentage(x) ==
    /\ x.kind = "num"
    /\ F64LessEq(F64Zero, x)
    /\ F64LessEq(x, F64Of(100))

\* the number x is, as a natural, in units of 2^e, for e <= x.exp and x >= 0
Scaled(x, e) == ShiftLeft(x.man, x.exp - e)

\* the least of three integers
Least(a, b, c) == IF a <= b /\ a <= c THEN a ELSE IF b <= c THEN b ELSE c

\* a + b <= c as real numbers, for floats a, b, c >= 0
ExactSumAtMost(a, b, c) ==
    ~NatLess(Scaled(c, Least(a.exp, b.exp, c.exp)),
             NatAdd(Scaled(a, Least(a.exp, b.exp, c.exp)),
                    Scaled(b, Least(a.exp, b.exp, c.exp))))

\* 100 + 2^-45, a float64
HundredAndSlack == F64Add(F64Of(100), RoundNearestEven(FALSE, NatOf(1), -45, FALSE))

\* the bounds and the orders of the percentages of a dict, their sum left aside
PercentagesInOrder(d) ==
    /\ \A key \in PercentageKeys : IsPercentage(d[key])
    /\ F64LessEq(d.pct_under_10, d.pct_under_12)
    /\ F64LessEq(d.pct_over_20, d.pct_over_15)
    /\ F64LessEq(d.bunching_rate, d.pct_under_10)

(* C28 as stated: for every batch of n >= 1 headways every percentage the     *)
(* reducer returns lies in [0, 100], pct_under_10 <= pct_under_12,             *)
(* pct_over_20 <= pct_over_15, bunching_rate <= pct_under_10, and              *)
(* pct_under_12 + pct_over_15 <= 100.                                          *)
C28_PercentagesBounded ==
    Returned64 =>
        /\ PercentagesInOrder(metrics64)
        /\ ExactSumAtMost(metrics64.pct_under_12, metrics64.pct_over_15, F64Of(100))

(* C28: for every batch of n >= 1 headways every percentage the reducer        *)
(* returns lies in [0, 100], pct_under_10 <= pct_under_12,                     *)
(* pct_over_20 <= pct_over_15, bunching_rate <= pct_under_10, and              *)
(* pct_under_12 + pct_over_15 <= 100 + 2^-45: each of the two is rounded to a  *)
(* float64 on its own, and their sum can be above 100 by that rounding.         *)
C28_PercentagesBoundedUpToRounding ==
    Returned64 =>
        /\ PercentagesInOrder(metrics64)
        /\ ExactSumAtMost(metrics64.pct_under_12, metrics64.pct_over_15, HundredAndSlack)

\* one headway of six is at most 12 minutes and the five others are above 15: the
\* two shares, 16.666666666666664 and 83.33333333333334, add up to more than 100
C28_Witness ==
    /\ Returned64
    /\ Len(m64_headways) = 6
    /\ CountAtMost64(m64_headways, 12) = 1
    /\ CountOver64(m64_headways, 15) = 5
    /\ metrics64.pct_under_12 = Pct64(1, 6)
    /\ metrics64.pct_over_15 = Pct64(5, 6)
    /\ ~ExactSumAtMost(metrics64.pct_under_12, metrics64.pct_over_15, F64Of(100))

\* the batch of the call in float64 has a positive sum, its headways being >= 0
PositiveSum64 == \E k \in 1 .. Len(m64_headways) : ~IsZero(m64_headways[k])

\* all headways of the batch of the call in float64 are equal
AllEqual64 == \A j, k \in 1 .. Len(m64_headways) : m64_headways[j] = m64_headways[k]

\* m1 * 2^e1 <= m2 * 2^e2, for naturals m1 and m2 below 2^56: by the places of
\* their highest bits, and digit by digit when these are the same
AtMostScaled(m1, e1, m2, e2) ==
    IF m1 = NatZero THEN TRUE
    ELSE IF m2 = NatZero THEN FALSE
    ELSE IF BitLength(m1) + e1 # BitLength(m2) + e2
         THEN BitLength(m1) + e1 < BitLength(m2) + e2
    ELSE IF e1 <= e2 THEN ~NatLess(ShiftLeft(m2, e2 - e1), m1)
    ELSE ~NatLess(m2, ShiftLeft(m1, e1 - e2))

\* |x| <= n * 2^-52 * |mean|, as real numbers: x is zero up to the rounding of the
\* sums of n terms
WithinRounding(x, n, mean) ==
    /\ x.kind = "num"
    /\ mean.kind = "num"
    /\ AtMostScaled(x.man, x.exp, NatMul(NatOf(n), mean.man), mean.exp - 52)

\* the excess wait time returned is zero up to rounding
EwtWithinRounding ==
    WithinRounding(metrics64.excess_wait_time, Len(m64_headways), metrics64.mean_headway)

=============================================================================
